---- MODULE Spec2Model ----
(***************************************************************************)
(* Blank (silence) classification engine of nuit-de-l-info:                *)
(*   src/src/ai/blank_classifier.py    BlankClassifier                     *)
(*   src/src/audio/silence_detector.py SilenceDetector                     *)
(*                                                                         *)
(* Conventions.                                                            *)
(*   Time is counted in ticks of 1/TicksPerSec second, so start_time,      *)
(*   end_time and the duration thresholds are exact integers.              *)
(*   Sample amplitudes are integers in units of 1/AmpDen (full scale 1.0   *)
(*   is AmpDen).  An RMS is never computed: sqrt(mean(x^2)) is compared    *)
(*   through the sum of squares S of the k samples of the window,          *)
(*       rms > p/q   <=>   S * q^2 > k * AmpDen^2 * p^2 .                  *)
(*   Python slices y[lo:hi] are kept as index ranges into the file.        *)
(***************************************************************************)
EXTENDS Integers, Sequences, FiniteSets, TLC

\* ------------------------------------------------------------------------
\* Units
\* ------------------------------------------------------------------------
TicksPerSec == 100

AmpDen == 1000

\* ------------------------------------------------------------------------
\* Bounds of the inputs
\* ------------------------------------------------------------------------
MaxDur == 1101

MaxStart == 150

MaxSamples == 120

MaxAmp == 3

Slack == 1

\* Marks around which durations are drawn (ticks): 0, scenario A (0.3 s),
\* the five duration thresholds of the two classifiers, scenario B (11 s).
DurationMarks == {0, 30, 50, 100, 300, 500, 1000, 1100}

Durations == {d \in 0..MaxDur : \E m \in DurationMarks : d - m \in (0 - Slack)..Slack}

Starts == {s \in 0..MaxStart : s % 50 = 0}

SampleRates == {8}

AudioLens == {n \in 0..MaxSamples : n \in {0, 3, 8, 9, 40} \/ n = MaxSamples}

Cuts == {1, 5, 20}

Amps == (0..MaxAmp) \cup {10}

\* A decoded audio file: n samples at rate sr, amplitude head before sample
\* index cut and tail from it on.  ok = FALSE: the reference cannot be
\* resolved (missing or undecodable file).
NoAudio == [ok |-> FALSE, sr |-> 8, n |-> 0, cut |-> 0, head |-> 0, tail |-> 0]

Audios ==
  {NoAudio} \cup
  [ok : {TRUE}, sr : SampleRates, n : AudioLens, cut : Cuts, head : Amps, tail : Amps]

\* ------------------------------------------------------------------------
\* Arithmetic helpers (numpy / python built-ins)
\* ------------------------------------------------------------------------
Min(a, b) == IF a <= b THEN a ELSE b

Max(a, b) == IF a >= b THEN a ELSE b

\* int(t * sr) for a time t >= 0 given in ticks
ToSample(t, sr) == (t * sr) \div TicksPerSec

\* (an audio with fields cut2 and last has a third piece, of amplitude last,
\* from sample index cut2 on)
SampleAt(a, i) ==
  IF i < a.cut THEN a.head
  ELSE IF "cut2" \in DOMAIN a /\ i >= a.cut2 THEN a.last
  ELSE a.tail

\* number of indices of lo..hi-1 that lie in p..q-1
Overlap(lo, hi, p, q) == Max(0, Min(hi, q) - Max(lo, p))

\* sum(x**2) over the samples lo..hi-1 of the file, for 0 <= lo and hi <= a.n:
\* the number of samples of each piece times the square of its amplitude
SumSq(a, lo, hi) ==
  LET c2 == IF "cut2" \in DOMAIN a THEN Max(a.cut, a.cut2) ELSE Max(a.cut, hi)
      l3 == IF "cut2" \in DOMAIN a THEN a.last ELSE 0
  IN  Overlap(lo, hi, 0, a.cut) * a.head * a.head
      + Overlap(lo, hi, a.cut, c2) * a.tail * a.tail
      + Overlap(lo, hi, c2, Max(c2, hi)) * l3 * l3

\* greatest common divisor, used to keep the products below within the
\* range of the integers
RECURSIVE GCD(_, _)
GCD(m, n) == IF n = 0 THEN m ELSE GCD(n, m % n)

\* np.sqrt(np.mean(w**2)) > p/q for a window of k samples with sum of squares S;
\* the mean of an empty window is NaN and every comparison with NaN is false
RmsGt(S, k, p, q) ==
  LET g  == GCD(q, AmpDen * p)
      qr == q \div g
      pr == (AmpDen * p) \div g
  IN  k > 0 /\ S * qr * qr > k * pr * pr

\* min(r1, r2) / max(r1, r2) > p/q for r1 = sqrt(S1/k1), r2 = sqrt(S2/k2), max > 0
RatioGt(S1, k1, S2, k2, p, q) ==
  LET g  == GCD(k1, k2)
      a1 == S1 * (k2 \div g)
      a2 == S2 * (k1 \div g)
  IN  Min(a1, a2) * q * q > Max(a1, a2) * p * p

\* python slices of the chunk y = file[y.lo : y.hi]
ChunkLen(y) == y.hi - y.lo

\* None, where the code passes or holds no array
NoneChunk == [lo |-> 0 - 1, hi |-> 0 - 1]

\* y[lo:hi] of an array of n samples, for lo, hi >= 0
PySlice(n, lo, hi) == [lo |-> Min(lo, n), hi |-> Max(Min(lo, n), Min(hi, n))]

\* y[:w]
SliceHead(y, w) == [lo |-> y.lo, hi |-> Min(y.hi, y.lo + w)]

\* y[-w:]   (y[-0:] is the whole of y)
SliceTail(y, w) == [lo |-> IF w = 0 THEN y.lo ELSE Max(y.lo, y.hi - w), hi |-> y.hi]

\* ------------------------------------------------------------------------
\* librosa.load(audio_file, sr=None, offset=..., duration=...)
\* ------------------------------------------------------------------------
Raise == "raise"

\* The possible outcomes of the load: an exception (raised = TRUE) when the
\* file cannot be resolved; otherwise the chunk of at most int(duration*sr)
\* samples from sample int(offset*sr).  An offset beyond the end of the file is
\* refused by the soundfile backend and yields an empty buffer through the
\* audioread fallback: which of the two happens depends on the installed
\* backends.
LoadFailed == [raised |-> TRUE, lo |-> 0, hi |-> 0]

librosa_load(a, offset, duration) ==
  IF ~a.ok THEN {LoadFailed}
  ELSE LET lo  == ToSample(offset, a.sr)
           cnt == ToSample(duration, a.sr)
       IN  IF lo > a.n
           THEN {LoadFailed, [raised |-> FALSE, lo |-> a.n, hi |-> a.n]}
           ELSE {[raised |-> FALSE, lo |-> lo, hi |-> Min(a.n, lo + cnt)]}

\* librosa.load(audio_file, sr=None): the whole file
librosa_load_all(a) ==
  IF ~a.ok THEN {LoadFailed} ELSE {[raised |-> FALSE, lo |-> 0, hi |-> a.n]}

\* ------------------------------------------------------------------------
\* BlankClassifier.classify_blank_rules
\* ------------------------------------------------------------------------
RULE1_DUR == 50

RULE2_DUR == 1000

RULE4_DUR == 300

\* fade_rule_natural with the ratio compared by >= instead of >
fade_rule_natural_nonstrict(a, y) ==
  /\ ChunkLen(y) > a.sr
  /\ LET context_window == a.sr \div 4
         start_segment == SliceHead(y, context_window)
         end_segment   == SliceTail(y, context_window)
         S1 == SumSq(a, start_segment.lo, start_segment.hi)
         S2 == SumSq(a, end_segment.lo, end_segment.hi)
         k1 == ChunkLen(start_segment)
         k2 == ChunkLen(end_segment)
     IN  /\ RmsGt(S1, k1, 1, 1000)
         /\ RmsGt(S2, k2, 1, 1000)
         /\ LET a1 == S1 * k2
                a2 == S2 * k1
            IN  Min(a1, a2) * 100 >= Max(a1, a2) * 9

\* lines 225-240: the fade rule on the loaded chunk y
fade_rule_natural(a, y) ==
  /\ ChunkLen(y) > a.sr
  /\ LET context_window == a.sr \div 4
     IN  /\ ChunkLen(y) > context_window * 2
         /\ LET start_segment == SliceHead(y, context_window)
                end_segment   == SliceTail(y, context_window)
                S1 == SumSq(a, start_segment.lo, start_segment.hi)
                S2 == SumSq(a, end_segment.lo, end_segment.hi)
                k1 == ChunkLen(start_segment)
                k2 == ChunkLen(end_segment)
            IN  /\ RmsGt(S1, k1, 1, 1000)
                /\ RmsGt(S2, k2, 1, 1000)
                /\ RatioGt(S1, k1, S2, k2, 3, 10)

\* classify_blank_rules_rule with rule 4 tested before the fade rule
classify_blank_rules_rule_swapped(a, y, duration) ==
  IF duration < RULE1_DUR THEN 1
  ELSE IF duration > RULE2_DUR THEN 2
  ELSE IF duration > RULE4_DUR THEN 4
  ELSE IF fade_rule_natural(a, y) THEN 3
  ELSE 5

\* classify_blank_rules_rule with the fade rule tested before rule 2
classify_blank_rules_rule_fadeFirst(a, y, duration) ==
  IF duration < RULE1_DUR THEN 1
  ELSE IF fade_rule_natural(a, y) THEN 3
  ELSE IF duration > RULE2_DUR THEN 2
  ELSE IF duration > RULE4_DUR THEN 4
  ELSE 5

\* lines 216-247: the return statement reached once the audio is loaded
\* (1: line 218, 2: line 222, 3: line 240, 4: line 244, 5: line 247)
classify_blank_rules_rule(a, y, duration) ==
  IF duration < RULE1_DUR THEN 1
  ELSE IF duration > RULE2_DUR THEN 2
  ELSE IF fade_rule_natural(a, y) THEN 3
  ELSE IF duration > RULE4_DUR THEN 4
  ELSE 5

\* the string each of the five return statements returns
rule_label(r) == <<"natural", "abnormal", "natural", "abnormal", "natural">>[r]

\* lines 209-214: the load; the set of possible outcomes of the call, each
\* with the chunk it worked on and the return statement reached (0: none)
classify_blank_rules(a, start_time_, end_time_) ==
  LET duration == end_time_ - start_time_
  IN  { IF y.raised
        THEN [value |-> Raise, rule |-> 0, y |-> y]
        ELSE LET r == classify_blank_rules_rule(a, y, duration)
             IN  [value |-> rule_label(r), rule |-> r, y |-> y] :
          y \in librosa_load(a, Max(0, start_time_ - TicksPerSec),
                             duration + 2 * TicksPerSec) }

\* ------------------------------------------------------------------------
\* SilenceDetector.classify_silence_type
\* ------------------------------------------------------------------------
ST_SHORT == 100

ST_LONG == 500

\* lines 148-164: len(y) > sr * 0.5, window_size = int(sr * 0.25)
silence_fade_natural(a, y) ==
  /\ 2 * ChunkLen(y) > a.sr
  /\ LET window_size == a.sr \div 4
         start_segment == SliceHead(y, window_size)
         end_segment   == SliceTail(y, window_size)
         S1 == SumSq(a, start_segment.lo, start_segment.hi)
         S2 == SumSq(a, end_segment.lo, end_segment.hi)
         k1 == ChunkLen(start_segment)
         k2 == ChunkLen(end_segment)
     IN  /\ RmsGt(S1, k1, 1, 1000)
         /\ RmsGt(S2, k2, 1, 1000)
         /\ RatioGt(S1, k1, S2, k2, 3, 10)

\* lines 145-179: the label once the audio is loaded
classify_silence_type_label(a, y, duration) ==
  IF silence_fade_natural(a, y) THEN "natural"
  ELSE IF duration < ST_SHORT THEN "natural"
  ELSE IF duration > ST_LONG THEN "abnormal"
  ELSE "natural"

\* lines 136-183: any exception of the body is turned into "unknown"
classify_silence_type(a, start_sec, end_sec) ==
  LET duration == end_sec - start_sec
  IN  { [value |-> IF y.raised THEN "unknown"
                   ELSE classify_silence_type_label(a, y, duration),
         rule |-> 0, y |-> y] :
          y \in librosa_load(a, Max(0, start_sec - TicksPerSec),
                             duration + 2 * TicksPerSec) }

\* ------------------------------------------------------------------------
\* SilenceDetector.detect_silence_segments
\* ------------------------------------------------------------------------
\* silence_threshold of the default configuration, -40 dBFS, as an amplitude:
\* 10^(-40/20) of full scale
SILENCE_THRESH == 10

\* min_silence_duration with the configured seconds taken as milliseconds
min_silence_len_unscaled(seconds) == seconds

\* line 15: the configured seconds, converted to ms
min_silence_len(seconds) == seconds * 1000

\* the members of a finite set of integers, in increasing order
RECURSIVE SortedSeq(_)
SortedSeq(S) ==
  IF S = {} THEN << >>
  ELSE LET m == CHOOSE x \in S : \A z \in S : x <= z
       IN  <<m>> \o SortedSeq(S \ {m})

\* pydub.silence.detect_silence(audio, min_silence_len, silence_thresh) with
\* its default seek_step of 1 ms: every window of min_silence_len ms whose
\* RMS is at most the threshold is silent; silent windows are chained into a
\* range while each starts at most min_silence_len ms after the previous
\* one, and a range runs from its first window's start to its last window's
\* end.  The result is the list of [start_ms, end_ms], empty when the audio
\* is shorter than min_silence_len.
detect_silence(a, min_len, silence_thresh) ==
  LET seg_len == (a.n * 1000) \div a.sr
      frame(ms) == (ms * a.sr) \div 1000
      silent(i) == SumSq(a, frame(i), frame(i + min_len))
                     <= (frame(i + min_len) - frame(i)) * silence_thresh * silence_thresh
      silence_starts == [i \in 0..(seg_len - min_len) |-> silent(i)]
      is_start(i) == i >= 0 /\ i <= seg_len - min_len /\ silence_starts[i]
      run_begins == {i \in 0..(seg_len - min_len) : is_start(i) /\ ~is_start(i - 1)}
      run_ends   == {i \in 0..(seg_len - min_len) : is_start(i) /\ ~is_start(i + 1)}
      range_starts == {b \in run_begins : \A e \in run_ends : e < b => b > e + min_len}
      range_lasts  == {e \in run_ends : \A b \in run_begins : b > e => b > e + min_len}
      range_of(b) == <<b, (CHOOSE e \in range_lasts :
                              e >= b /\ \A z \in range_lasts : z >= b => e <= z) + min_len>>
      starts == SortedSeq(range_starts)
  IN  [k \in 1..Len(starts) |-> range_of(starts[k])]

\* start / 1000: milliseconds to seconds, in ticks (exact for the multiples
\* of 10 ms that the audios of the model yield)
ms_to_sec(ms) == (ms * TicksPerSec) \div 1000

\* lines 31-57: the list of (start, end) in seconds; any exception, a file
\* that cannot be read included, gives the empty list
detect_silence_segments(a, min_len) ==
  IF ~a.ok THEN << >>
  ELSE LET silence_segments_ms == detect_silence(a, min_len, SILENCE_THRESH)
       IN  [k \in 1..Len(silence_segments_ms) |->
              << ms_to_sec(silence_segments_ms[k][1]), ms_to_sec(silence_segments_ms[k][2]) >>]

\* ------------------------------------------------------------------------
\* BlankClassifier.extract_features
\* ------------------------------------------------------------------------
\* An entry of the feature vector is kept as the quantity computed (of), the
\* file and the sample ranges it was computed on (args), and what is known of
\* its value: "zero", "finite" (some finite float) or "nan".
Term(of, a, args, val) == [of |-> of, file |-> a, args |-> args, val |-> val]

\* the literal 0 of features.extend([0, 0]) and features.append(0)
Zero == Term("0", NoAudio, << >>, "zero")

\* np.sqrt(np.mean(w**2)): the mean of an empty array is nan
rms_val(a, w) ==
  IF ChunkLen(w) = 0 THEN "nan"
  ELSE IF SumSq(a, w.lo, w.hi) = 0 THEN "zero" ELSE "finite"

\* lines 101-132: _detect_fade on the chunk c, or on c[::-1] when reversed.
\* The ten windows have the same length, so their RMS differ where their sums
\* of squares do.
detect_fade(a, c, reversed) ==
  IF ChunkLen(c) < 100 THEN "zero"
  ELSE LET window_size == ChunkLen(c) \div 10
           window(i) == IF reversed
                        THEN [lo |-> c.hi - (i + 1) * window_size, hi |-> c.hi - i * window_size]
                        ELSE [lo |-> c.lo + i * window_size, hi |-> c.lo + (i + 1) * window_size]
           E(i) == SumSq(a, window(i).lo, window(i).hi)
           avg_change_pos == \E i \in 0..8 : E(i) # E(i + 1)
       IN  IF avg_change_pos THEN "finite" ELSE "zero"

\* lines 140-143: the two slices whose energies are compared,
\* before[-window_size:] and after[:window_size]
abruptness_windows(before, after) ==
  LET window_size == Min(Min(ChunkLen(before), ChunkLen(after)), 2048)
  IN  << SliceTail(before, window_size), SliceHead(after, window_size) >>

\* lines 134-150: _calculate_transition_abruptness.  max(x, y) of python
\* returns y when y > x and x otherwise, and a comparison with nan is false.
calculate_transition_abruptness(a, before, after) ==
  LET bw == abruptness_windows(before, after)[1]
      aw == abruptness_windows(before, after)[2]
      kb == ChunkLen(bw)
      ka == ChunkLen(aw)
      Sb == SumSq(a, bw.lo, bw.hi)
      Sa == SumSq(a, aw.lo, aw.hi)
      before_nan == kb = 0
      after_nan  == ka = 0
      after_gt   == ~before_nan /\ ~after_nan /\ Sa * kb > Sb * ka
      max_pos    == IF after_gt THEN Sa > 0 ELSE (~before_nan /\ Sb > 0)
  IN  IF max_pos
      THEN (IF before_nan \/ after_nan THEN "nan"
            ELSE IF Sa * kb = Sb * ka THEN "zero" ELSE "finite")
      ELSE "zero"

\* spectral_features appending one 0 where the region is too short
spectral_features_oneZero(a, seg) ==
  IF ChunkLen(seg) > 512
  THEN LET v == IF SumSq(a, seg.lo, seg.hi) = 0 THEN "zero" ELSE "finite"
       IN  << Term("spectral_centroid", a, <<seg>>, v),
              Term("spectral_rolloff", a, <<seg>>, v) >>
  ELSE << Zero >>

\* lines 53-60: the spectral features, 0 for a silent region
spectral_features(a, seg) ==
  IF ChunkLen(seg) > 512
  THEN LET v == IF SumSq(a, seg.lo, seg.hi) = 0 THEN "zero" ELSE "finite"
       IN  << Term("spectral_centroid", a, <<seg>>, v),
              Term("spectral_rolloff", a, <<seg>>, v) >>
  ELSE << Zero, Zero >>

\* context_features computing the entries of a context of 512 samples too
context_features_from512(a, c, rms_name, fade_name, reversed) ==
  IF c # NoneChunk /\ ChunkLen(c) >= 512
  THEN << Term(rms_name, a, <<c>>, rms_val(a, c)),
          Term(fade_name, a, <<c>>, detect_fade(a, c, reversed)) >>
  ELSE << Zero, Zero >>

\* lines 62-83: the RMS and the fade score of the context c (reversed: the
\* fade is looked for in c[::-1]), or two literal 0
context_features(a, c, rms_name, fade_name, reversed) ==
  IF c # NoneChunk /\ ChunkLen(c) > 512
  THEN << Term(rms_name, a, <<c>>, rms_val(a, c)),
          Term(fade_name, a, <<c>>, detect_fade(a, c, reversed)) >>
  ELSE << Zero, Zero >>

\* lines 29-99: the vector returned for the region seg of file a and the
\* contexts before and after (NoneChunk: None)
extract_features(a, seg, before, after) ==
  LET duration == << Term("duration", a, <<seg>>,
                          IF ChunkLen(seg) = 0 THEN "zero" ELSE "finite") >>
      rms == << Term("rms_energy", a, <<seg>>, rms_val(a, seg)) >>
      spectral == spectral_features(a, seg)
      ctx_before == context_features(a, before, "context_rms_before", "fade_in_score", FALSE)
      ctx_after == context_features(a, after, "context_rms_after", "fade_out_score", TRUE)
      abruptness ==
        IF before # NoneChunk /\ after # NoneChunk
        THEN << Term("transition_abruptness", a, abruptness_windows(before, after),
                     calculate_transition_abruptness(a, before, after)) >>
        ELSE << Zero >>
      zcr ==
        IF ChunkLen(seg) > 0
        THEN << Term("zero_crossing_rate", a, <<seg>>, "finite") >>
        ELSE << Zero >>
  IN  duration \o rms \o spectral \o ctx_before \o ctx_after \o abruptness \o zcr

\* lines 170-179 and 287-294: the region and its contexts sliced from the
\* whole file y, for times given in ticks
silence_segment_of(a, y, s, e) ==
  PySlice(ChunkLen(y), ToSample(s, a.sr), ToSample(e, a.sr))

context_before_of(a, y, s) ==
  LET start_sample == ToSample(s, a.sr)
      context_window == a.sr
  IN  PySlice(ChunkLen(y), Max(0, start_sample - context_window), start_sample)

context_after_of(a, y, e) ==
  LET end_sample == ToSample(e, a.sr)
      context_window == a.sr
  IN  PySlice(ChunkLen(y), end_sample, Min(ChunkLen(y), end_sample + context_window))

\* ------------------------------------------------------------------------
\* Objects held by the facade and persisted in model_file
\* ------------------------------------------------------------------------
\* number of entries of the vector extract_features returns
FEATURE_DIM == 10

MaxRuns == 2

MaxExamples == 2

\* A StandardScaler / RandomForestClassifier object, or None.  run names the
\* train_model call (0: an earlier process) whose data the object was fitted
\* on, dim the number of features it was fitted with, classes the labels seen
\* by the classifier's fit.  The facade is the only holder of its objects, so
\* they are kept by value.
NoneObj == [none |-> TRUE, run |-> 0, fitted |-> FALSE, dim |-> 0, classes |-> {}]

\* StandardScaler() / RandomForestClassifier(...): a new, unfitted object
NewObj(r) == [none |-> FALSE, run |-> r, fitted |-> FALSE, dim |-> 0, classes |-> {}]

\* the object after fit(X, y) on a matrix of dim columns
Fitted(r, dim, classes) ==
  [none |-> FALSE, run |-> r, fitted |-> TRUE, dim |-> dim, classes |-> classes]

\* content of model_file
FileAbsent == [kind |-> "absent", keys |-> {}, model |-> NoneObj, scaler |-> NoneObj]

\* a file pickle.load cannot read: corrupt, or truncated by open(..., 'wb')
FileUnreadable == [kind |-> "unreadable", keys |-> {}, model |-> NoneObj, scaler |-> NoneObj]

\* pickle.dump({'model': m, 'scaler': sc}, f)
pickle_dump(m, sc) ==
  [kind |-> "dict", keys |-> {"model", "scaler"}, model |-> m, scaler |-> sc]

\* artifacts left by an earlier process: complete ones fitted on dim features,
\* and dictionaries lacking a key
OldArtifact(dim) == pickle_dump(Fitted(0, dim, {0, 1}), Fitted(0, dim, {}))

InitDisks ==
  { FileAbsent, FileUnreadable,
    OldArtifact(FEATURE_DIM), OldArtifact(FEATURE_DIM - 1),
    [OldArtifact(FEATURE_DIM) EXCEPT !.keys = {"model"}, !.scaler = NoneObj],
    [OldArtifact(FEATURE_DIM) EXCEPT !.keys = {"scaler"}, !.model = NoneObj],
    [OldArtifact(FEATURE_DIM) EXCEPT !.keys = {}, !.model = NoneObj, !.scaler = NoneObj] }

\* training / test examples: audio_file exists or not, and the label
Labels == {"natural", "abnormal"}

\* (the label of a missing file is never read)
Examples == [ok : {TRUE}, label : Labels] \cup {[ok |-> FALSE, label |-> "natural"]}

RECURSIVE SeqsUpTo(_, _)
SeqsUpTo(S, n) ==
  IF n = 0 THEN {<< >>}
  ELSE LET shorter == SeqsUpTo(S, n - 1)
       IN  shorter \cup {Append(q, x) : q \in {t \in shorter : Len(t) = n - 1}, x \in S}

ExampleLists == SeqsUpTo(Examples, MaxExamples)

\* line 300: 1 if label == "natural" else 0
encode_label(label) == IF label = "natural" THEN 1 ELSE 0

\* decode_prediction reading class 0 as natural
decode_prediction_inverted(prediction) == IF prediction = 0 THEN "natural" ELSE "abnormal"

\* line 191: "natural" if prediction == 1 else "abnormal"
decode_prediction(prediction) == IF prediction = 1 THEN "natural" ELSE "abnormal"

\* lines 271-300: the rows kept (one per example whose file exists) and
\* the set of their encoded labels
RowsOf(examples) == {i \in 1..Len(examples) : examples[i].ok}

ClassesOf(examples) == {encode_label(examples[i].label) : i \in RowsOf(examples)}

\* inputs of the classify calls made on the facade
LoudAudio == [ok |-> TRUE, sr |-> 8, n |-> 120, cut |-> 20, head |-> 10, tail |-> 10]

CutAudio == [ok |-> TRUE, sr |-> 8, n |-> 120, cut |-> 20, head |-> 10, tail |-> 0]

FacadeInputs ==
  { <<LoudAudio, 100, 130>>, <<CutAudio, 100, 500>>, <<NoAudio, 100, 130>> }

\* ------------------------------------------------------------------------
\* State
\* ------------------------------------------------------------------------
VARIABLES
  audio_file,   \* the audio a classification call is about
  start_time,   \* its interval, in ticks
  end_time,
  result,       \* the call made on it and its outcome
  model,        \* BlankClassifier.model
  scaler,       \* BlankClassifier.scaler
  is_trained,   \* BlankClassifier.is_trained
  disk,         \* content of BlankClassifier.model_file
  runs,         \* number of train_model calls that built a feature matrix
  ctl,          \* the thread calling load_model, train_model, save_model, evaluate_model
  call,         \* the thread calling classify_blank_ml
  audio_segment,   \* arguments of a direct extract_features call
  context_before,
  context_after,
  features,        \* the vector it returned
  training_data,   \* train_model: the examples read from training_data_file
  example_i,       \* position of its loop over training_data
  X,               \* the feature rows appended so far
  y_labels,        \* the encoded labels appended so far (y)
  config_min_silence_duration,  \* config["audio"]["min_silence_duration"] (seconds)
  min_silence_duration,  \* SilenceDetector.min_silence_duration (ms)
  silence_segments,      \* what detect_silence_segments returned
  silences,              \* records built by detect_and_classify_all_silences
  alerts,                \* blank alerts requested by ProcessingThread.run
  ppc,                   \* position of the processing thread
  recorder,        \* the fields of the AudioRecorder
  now,             \* time.time() / datetime.now(): half minutes for the recorder, days for the file manager
  threads,         \* position of every thread started on AudioRecorder._record
  rcall,           \* the thread calling the AudioRecorder, and its last call
  chunks,          \* number of chunks the audio stream has delivered
  fs,              \* recording files on disk: the chunks each holds
  errors,          \* exceptions raised by the audio stream and the file system
  gui,             \* MainWindow: enabled buttons
  processing,      \* every ProcessingThread started, with its file and state
  recordings,      \* table recordings of the database, by id
  blanks,          \* table blanks
  transcriptions,  \* table transcriptions
  sqlite_sequence, \* AUTOINCREMENT counters of the three tables
  received,        \* ids of the recordings rows an add_blank call updated
  fcall            \* the last FileManager call and what it returned

callVars == <<audio_file, start_time, end_time, result>>

facadeVars == <<model, scaler, is_trained, disk, runs, ctl, call>>

facadeVarsButCall == <<model, scaler, is_trained, disk, runs, ctl>>

extractVars == <<audio_segment, context_before, context_after, features>>

trainLoopVars == <<training_data, example_i, X, y_labels>>

pipeVars == <<config_min_silence_duration, min_silence_duration, silence_segments, silences, alerts, ppc>>

recVars == <<recorder, now, threads, rcall, chunks, fs, errors>>

windowVars == <<gui, processing>>

dbVars == <<recordings, blanks, transcriptions, sqlite_sequence, received, fcall>>

appVars == <<recVars, windowVars, dbVars>>

vars == <<audio_file, start_time, end_time, result,
          model, scaler, is_trained, disk, runs, ctl, call,
          extractVars, trainLoopVars, pipeVars, appVars>>

\* no extract_features call, no train_model loop, no processing thread
NoExtract ==
  /\ audio_segment = NoneChunk
  /\ context_before = NoneChunk
  /\ context_after = NoneChunk
  /\ features = << >>

NoTrainLoop ==
  /\ training_data = << >>
  /\ example_i = 0
  /\ X = << >>
  /\ y_labels = << >>

NoPipeline ==
  /\ config_min_silence_duration = 0
  /\ min_silence_duration = 0
  /\ silence_segments = << >>
  /\ silences = << >>
  /\ alerts = << >>
  /\ ppc = "none"

\* no recorder, no window, no database
NoFile == 0 - 1

NoTime == 0 - 1

\* lines 14-20 of recorder.py: the fields of a new AudioRecorder
NewRecorder ==
  [is_recording |-> FALSE, frames |-> << >>, audio |-> "None", stream |-> "None",
   recording_thread |-> 0, current_file |-> NoFile, start_time |-> NoTime]

\* the caller of the recorder between two calls, after op returned ret
\* (saved_file: the file stop_recording returned; info: get_recording_info)
RCallIdle(op, ret, saved_file) ==
  [op |-> op, pc |-> "idle", ret |-> ret, saved_file |-> saved_file,
   info |-> [is_recording |-> FALSE, current_file |-> NoFile]]

NoRecorder ==
  /\ recorder = NewRecorder
  /\ now = 0
  /\ threads = << >>
  /\ rcall = RCallIdle("__init__", "None", NoFile)
  /\ chunks = 0
  /\ fs = << >>
  /\ errors = << >>

NoWindow ==
  /\ gui = [btn_start_recording |-> FALSE, btn_stop_recording |-> FALSE]
  /\ processing = << >>

NoStorage ==
  /\ recordings = << >>
  /\ blanks = {}
  /\ transcriptions = {}
  /\ sqlite_sequence = [recordings |-> 0, blanks |-> 0, transcriptions |-> 0]
  /\ received = {}
  /\ fcall = [op |-> "none", ret |-> 0]

NoApp == NoRecorder /\ NoWindow /\ NoStorage

NoResult == [fn |-> "none", value |-> "none", rule |-> 0, y |-> LoadFailed]

\* the controlling thread between two calls, after op returned ret
CtlIdle(op, ret, data) ==
  [op |-> op, pc |-> "idle", ret |-> ret, run |-> 0, examples |-> << >>,
   i |-> 0, total |-> 0, correct |-> 0, preds |-> << >>, data |-> data]

\* the classifying thread outside a call
CallIdle ==
  [pc |-> "idle", trained |-> FALSE, scalerUsed |-> NoneObj, modelUsed |-> NoneObj,
   probaModel |-> NoneObj, pred |-> 0]

\* ------------------------------------------------------------------------
\* BlankClassifier.load_model and __init__
\* ------------------------------------------------------------------------
\* lines 347-363 run to completion on fields <<m, sc, t>>: the fields after
\* the call and its return value
load_model(file, m, sc, t) ==
  IF file.kind # "dict" THEN [model |-> m, scaler |-> sc, is_trained |-> t, ret |-> "False"]
  ELSE IF "model" \notin file.keys
       THEN [model |-> m, scaler |-> sc, is_trained |-> t, ret |-> "False"]
  ELSE IF "scaler" \notin file.keys
       THEN [model |-> file.model, scaler |-> sc, is_trained |-> t, ret |-> "False"]
  ELSE [model |-> file.model, scaler |-> file.scaler, is_trained |-> TRUE, ret |-> "True"]

\* lines 15-27: the fields of a facade constructed on model_file
Constructed(file) == load_model(file, NoneObj, NoneObj, FALSE)

Init ==
  /\ disk \in InitDisks
  /\ model = Constructed(disk).model
  /\ scaler = Constructed(disk).scaler
  /\ is_trained = Constructed(disk).is_trained
  /\ runs = 0
  /\ ctl = CtlIdle("__init__", Constructed(disk).ret, disk)
  /\ call = CallIdle
  /\ audio_file = NoAudio
  /\ start_time = 0
  /\ end_time = 0
  /\ result = NoResult
  /\ NoApp
  /\ NoExtract
  /\ NoTrainLoop
  /\ NoPipeline

\* load_model called again on the live facade (explicit reload), statement by
\* statement.  Lines 349-354: os.path.exists, open, pickle.load
LoadRead ==
  /\ ctl.pc = "idle"
  /\ IF disk.kind = "dict"
     THEN ctl' = [CtlIdle("load_model", "none", disk) EXCEPT !.pc = "l_model"]
     ELSE ctl' = CtlIdle("load_model", "False", disk)
  /\ UNCHANGED <<model, scaler, is_trained, disk, runs, call, callVars>>
  /\ UNCHANGED <<extractVars, trainLoopVars, pipeVars, appVars>>

\* LoadModelField marking the facade trained as soon as the model is read
LoadModelField_trainedEarly ==
  /\ ctl.pc = "l_model"
  /\ IF "model" \in ctl.data.keys
     THEN /\ model' = ctl.data.model
          /\ is_trained' = TRUE
          /\ ctl' = [ctl EXCEPT !.pc = "l_scaler"]
     ELSE /\ model' = model
          /\ is_trained' = is_trained
          /\ ctl' = CtlIdle("load_model", "False", ctl.data)
  /\ UNCHANGED <<scaler, disk, runs, call, callVars>>
  /\ UNCHANGED <<extractVars, trainLoopVars, pipeVars, appVars>>

\* line 355: self.model = data['model']
LoadModelField ==
  /\ ctl.pc = "l_model"
  /\ IF "model" \in ctl.data.keys
     THEN /\ model' = ctl.data.model
          /\ ctl' = [ctl EXCEPT !.pc = "l_scaler"]
     ELSE /\ model' = model
          /\ ctl' = CtlIdle("load_model", "False", ctl.data)
  /\ UNCHANGED <<scaler, is_trained, disk, runs, call, callVars>>
  /\ UNCHANGED <<extractVars, trainLoopVars, pipeVars, appVars>>

\* line 356: self.scaler = data['scaler']
LoadScalerField ==
  /\ ctl.pc = "l_scaler"
  /\ IF "scaler" \in ctl.data.keys
     THEN /\ scaler' = ctl.data.scaler
          /\ ctl' = [ctl EXCEPT !.pc = "l_trained"]
     ELSE /\ scaler' = scaler
          /\ ctl' = CtlIdle("load_model", "False", ctl.data)
  /\ UNCHANGED <<model, is_trained, disk, runs, call, callVars>>
  /\ UNCHANGED <<extractVars, trainLoopVars, pipeVars, appVars>>

\* lines 357-360: self.is_trained = True; return True
LoadSetTrained ==
  /\ ctl.pc = "l_trained"
  /\ is_trained' = TRUE
  /\ ctl' = CtlIdle("load_model", "True", ctl.data)
  /\ UNCHANGED <<model, scaler, disk, runs, call, callVars>>
  /\ UNCHANGED <<extractVars, trainLoopVars, pipeVars, appVars>>

\* ------------------------------------------------------------------------
\* BlankClassifier.train_model
\* ------------------------------------------------------------------------
\* TrainBegin marking the facade untrained when no example is kept
TrainBegin_untrain(examples) ==
  /\ ctl.pc = "idle"
  /\ IF RowsOf(examples) = {}
     THEN /\ ctl' = [CtlIdle("train_model", "False", FileAbsent) EXCEPT !.examples = examples]
          /\ runs' = runs
          /\ is_trained' = FALSE
     ELSE /\ runs < MaxRuns
          /\ runs' = runs + 1
          /\ is_trained' = is_trained
          /\ ctl' = [CtlIdle("train_model", "none", FileAbsent) EXCEPT
                       !.pc = "t_scaler", !.examples = examples, !.run = runs + 1]
  /\ UNCHANGED <<model, scaler, disk, call, callVars>>
  /\ UNCHANGED <<extractVars, trainLoopVars, pipeVars, appVars>>

\* TrainBegin creating the scaler before the test of len(X)
TrainBegin_lateCheck(examples) ==
  /\ ctl.pc = "idle"
  /\ IF RowsOf(examples) = {}
     THEN /\ ctl' = [CtlIdle("train_model", "False", FileAbsent) EXCEPT !.examples = examples]
          /\ runs' = runs
          /\ scaler' = NewObj(runs + 1)
     ELSE /\ runs < MaxRuns
          /\ runs' = runs + 1
          /\ scaler' = scaler
          /\ ctl' = [CtlIdle("train_model", "none", FileAbsent) EXCEPT
                       !.pc = "t_scaler", !.examples = examples, !.run = runs + 1]
  /\ UNCHANGED <<model, is_trained, disk, call, callVars>>
  /\ UNCHANGED <<extractVars, trainLoopVars, pipeVars, appVars>>

\* lines 265-310: read the examples, build X and y, give up when X is empty
TrainBegin(examples) ==
  /\ ctl.pc = "idle"
  /\ IF RowsOf(examples) = {}
     THEN /\ ctl' = [CtlIdle("train_model", "False", FileAbsent) EXCEPT !.examples = examples]
          /\ runs' = runs
     ELSE /\ runs < MaxRuns
          /\ runs' = runs + 1
          /\ ctl' = [CtlIdle("train_model", "none", FileAbsent) EXCEPT
                       !.pc = "t_scaler", !.examples = examples, !.run = runs + 1]
  /\ UNCHANGED <<model, scaler, is_trained, disk, call, callVars>>
  /\ UNCHANGED <<extractVars, trainLoopVars, pipeVars, appVars>>

\* line 313: self.scaler = StandardScaler()
TrainNewScaler ==
  /\ ctl.pc = "t_scaler"
  /\ scaler' = NewObj(ctl.run)
  /\ ctl' = [ctl EXCEPT !.pc = "t_fit_scaler"]
  /\ UNCHANGED <<model, is_trained, disk, runs, call, callVars>>
  /\ UNCHANGED <<extractVars, trainLoopVars, pipeVars, appVars>>

\* line 314: X_scaled = self.scaler.fit_transform(X)
TrainFitScaler ==
  /\ ctl.pc = "t_fit_scaler"
  /\ scaler' = Fitted(ctl.run, FEATURE_DIM, {})
  /\ ctl' = [ctl EXCEPT !.pc = "t_model"]
  /\ UNCHANGED <<model, is_trained, disk, runs, call, callVars>>
  /\ UNCHANGED <<extractVars, trainLoopVars, pipeVars, appVars>>

\* line 317: self.model = RandomForestClassifier(n_estimators=100, random_state=42)
TrainNewModel ==
  /\ ctl.pc = "t_model"
  /\ model' = NewObj(ctl.run)
  /\ ctl' = [ctl EXCEPT !.pc = "t_fit_model"]
  /\ UNCHANGED <<scaler, is_trained, disk, runs, call, callVars>>
  /\ UNCHANGED <<extractVars, trainLoopVars, pipeVars, appVars>>

\* line 318: self.model.fit(X_scaled, y).  The fit raises ValueError on a
\* matrix with a NaN entry (the row of an example whose region is empty,
\* line 49) where the forest rejects NaN; train_model catches nothing, so the
\* call ends there with the new objects installed.
TrainFitModel ==
  /\ ctl.pc = "t_fit_model"
  /\ \/ /\ model' = Fitted(ctl.run, FEATURE_DIM, ClassesOf(ctl.examples))
        /\ ctl' = [ctl EXCEPT !.pc = "t_trained"]
     \/ /\ model' = model
        /\ ctl' = [CtlIdle("train_model", Raise, FileAbsent) EXCEPT !.examples = ctl.examples]
  /\ UNCHANGED <<scaler, is_trained, disk, runs, call, callVars>>
  /\ UNCHANGED <<extractVars, trainLoopVars, pipeVars, appVars>>

\* lines 321-327: accuracy on the training set; self.is_trained = True; save_model()
TrainSetTrained ==
  /\ ctl.pc = "t_trained"
  /\ is_trained' = TRUE
  /\ ctl' = [ctl EXCEPT !.pc = "s_open"]
  /\ UNCHANGED <<model, scaler, disk, runs, call, callVars>>
  /\ UNCHANGED <<extractVars, trainLoopVars, pipeVars, appVars>>

\* ------------------------------------------------------------------------
\* BlankClassifier.save_model
\* ------------------------------------------------------------------------
\* called by the user of the facade
SaveBegin ==
  /\ ctl.pc = "idle"
  /\ ctl' = [CtlIdle("save_model", "none", FileAbsent) EXCEPT !.pc = "s_open"]
  /\ UNCHANGED <<model, scaler, is_trained, disk, runs, call, callVars>>
  /\ UNCHANGED <<extractVars, trainLoopVars, pipeVars, appVars>>

\* lines 333-339: nothing to save when untrained; else makedirs and
\* open(self.model_file, 'wb'), which truncates the file
SaveOpen ==
  /\ ctl.pc = "s_open"
  /\ IF ~is_trained
     THEN /\ disk' = disk
          /\ ctl' = CtlIdle(ctl.op, "None", FileAbsent)
     ELSE /\ disk' = FileUnreadable
          /\ ctl' = [ctl EXCEPT !.pc = "s_dump"]
  /\ UNCHANGED <<model, scaler, is_trained, runs, call, callVars>>
  /\ UNCHANGED <<extractVars, trainLoopVars, pipeVars, appVars>>

\* lines 340-345: pickle.dump of the two fields; train_model then returns True
SaveDump ==
  /\ ctl.pc = "s_dump"
  /\ disk' = pickle_dump(model, scaler)
  /\ ctl' = CtlIdle(ctl.op, IF ctl.op = "train_model" THEN "True" ELSE "None", FileAbsent)
  /\ UNCHANGED <<model, scaler, is_trained, runs, call, callVars>>
  /\ UNCHANGED <<extractVars, trainLoopVars, pipeVars, appVars>>

\* ------------------------------------------------------------------------
\* BlankClassifier.classify_blank_ml
\* ------------------------------------------------------------------------
\* why using object o on a vector of FEATURE_DIM entries raises, if it does:
\* None has no such method, an unfitted estimator raises NotFittedError, a
\* different number of features raises ValueError
Unusable(o) == o.none \/ ~o.fitted \/ o.dim # FEATURE_DIM

\* the learned path run to completion on fields that do not change meanwhile
\* (lines 167-195): the labels it may return, or Raise
classify_learned(a, m, sc) ==
  IF ~a.ok \/ Unusable(sc) \/ Unusable(m) THEN {Raise}
  ELSE {decode_prediction(c) : c \in m.classes}

\* ClassifyBegin without the fallback to the rule classifier
ClassifyBegin_noFallback(a, s, e) ==
  /\ call.pc = "idle"
  /\ audio_file' = a
  /\ start_time' = s
  /\ end_time' = e
  /\ \E y \in librosa_load_all(a) :
       /\ result' = [fn |-> "classify_blank_ml",
                     value |-> IF y.raised THEN Raise ELSE "none",
                     rule |-> 0, y |-> y]
       /\ call' = [CallIdle EXCEPT !.pc = IF y.raised THEN "done" ELSE "c_scale",
                                   !.trained = is_trained]
  /\ UNCHANGED facadeVarsButCall
  /\ UNCHANGED <<extractVars, trainLoopVars, pipeVars, appVars>>

\* lines 164-182: the test of is_trained; the rule classifier when it is
\* false, else the load of the file and the feature vector
ClassifyBegin(a, s, e) ==
  /\ call.pc = "idle"
  /\ audio_file' = a
  /\ start_time' = s
  /\ end_time' = e
  /\ IF ~is_trained
     THEN /\ \E o \in classify_blank_rules(a, s, e) :
               result' = [fn |-> "classify_blank_ml", value |-> o.value,
                          rule |-> o.rule, y |-> o.y]
          /\ call' = [CallIdle EXCEPT !.pc = "done", !.trained = FALSE]
     ELSE \E y \in librosa_load_all(a) :
            /\ result' = [fn |-> "classify_blank_ml",
                          value |-> IF y.raised THEN Raise ELSE "none",
                          rule |-> 0, y |-> y]
            /\ call' = [CallIdle EXCEPT !.pc = IF y.raised THEN "done" ELSE "c_scale",
                                        !.trained = TRUE]
  /\ UNCHANGED facadeVarsButCall
  /\ UNCHANGED <<extractVars, trainLoopVars, pipeVars, appVars>>

\* ClassifyScale calling fit_transform instead of transform
ClassifyScale_refit ==
  /\ call.pc = "c_scale"
  /\ scaler' = IF scaler.none THEN scaler ELSE Fitted(scaler.run, FEATURE_DIM, {})
  /\ call' = [call EXCEPT !.scalerUsed = scaler,
                          !.pc = IF scaler.none THEN "done" ELSE "c_predict"]
  /\ result' = [result EXCEPT !.value = IF scaler.none THEN Raise ELSE "none"]
  /\ UNCHANGED <<audio_file, start_time, end_time>>
  /\ UNCHANGED <<model, is_trained, disk, runs, ctl>>
  /\ UNCHANGED <<extractVars, trainLoopVars, pipeVars, appVars>>

\* line 185: features_scaled = self.scaler.transform(features.reshape(1, -1))
ClassifyScale ==
  /\ call.pc = "c_scale"
  /\ call' = [call EXCEPT !.scalerUsed = scaler,
                          !.pc = IF Unusable(scaler) THEN "done" ELSE "c_predict"]
  /\ result' = [result EXCEPT !.value = IF Unusable(scaler) THEN Raise ELSE "none"]
  /\ UNCHANGED <<audio_file, start_time, end_time>>
  /\ UNCHANGED facadeVarsButCall
  /\ UNCHANGED <<extractVars, trainLoopVars, pipeVars, appVars>>

\* line 188: prediction = self.model.predict(features_scaled)[0]
ClassifyPredict ==
  /\ call.pc = "c_predict"
  /\ IF Unusable(model)
     THEN /\ call' = [call EXCEPT !.modelUsed = model, !.pc = "done"]
          /\ result' = [result EXCEPT !.value = Raise]
     ELSE /\ \E c \in model.classes :
               call' = [call EXCEPT !.modelUsed = model, !.pred = c, !.pc = "c_proba"]
          /\ result' = result
  /\ UNCHANGED <<audio_file, start_time, end_time>>
  /\ UNCHANGED facadeVarsButCall
  /\ UNCHANGED <<extractVars, trainLoopVars, pipeVars, appVars>>

\* lines 189-195: confidence = np.max(self.model.predict_proba(...)[0]); the label
ClassifyProba ==
  /\ call.pc = "c_proba"
  /\ call' = [call EXCEPT !.probaModel = model, !.pc = "done"]
  /\ result' = [result EXCEPT !.value = IF Unusable(model) THEN Raise
                                        ELSE decode_prediction(call.pred)]
  /\ UNCHANGED <<audio_file, start_time, end_time>>
  /\ UNCHANGED facadeVarsButCall
  /\ UNCHANGED <<extractVars, trainLoopVars, pipeVars, appVars>>

\* the call returns (or its exception reaches the caller)
ClassifyReturn ==
  /\ call.pc = "done"
  /\ call' = CallIdle
  /\ audio_file' = NoAudio
  /\ start_time' = 0
  /\ end_time' = 0
  /\ result' = NoResult
  /\ UNCHANGED facadeVarsButCall
  /\ UNCHANGED <<extractVars, trainLoopVars, pipeVars, appVars>>

\* ------------------------------------------------------------------------
\* BlankClassifier.evaluate_model
\* ------------------------------------------------------------------------
\* lines 372-382: nothing to evaluate when untrained; else read the examples
EvalBegin(examples) ==
  /\ ctl.pc = "idle"
  /\ IF ~is_trained
     THEN ctl' = [CtlIdle("evaluate_model", "None", FileAbsent) EXCEPT !.examples = examples]
     ELSE ctl' = [CtlIdle("evaluate_model", "none", FileAbsent) EXCEPT
                    !.pc = "e_loop", !.examples = examples, !.i = 1]
  /\ UNCHANGED <<model, scaler, is_trained, disk, runs, call, callVars>>
  /\ UNCHANGED <<extractVars, trainLoopVars, pipeVars, appVars>>

\* lines 384-398: one example; classify_blank_ml runs in this thread, which
\* is the only one that assigns the fields.  preds keeps the predicted_label
\* of the examples counted so far.
EvalExample ==
  /\ ctl.pc = "e_loop"
  /\ ctl.i <= Len(ctl.examples)
  /\ LET ex == ctl.examples[ctl.i]
     IN  IF ~ex.ok
         THEN ctl' = [ctl EXCEPT !.i = ctl.i + 1]
         ELSE \E predicted_label \in
                   (IF is_trained THEN classify_learned(LoudAudio, model, scaler)
                    ELSE {o.value : o \in classify_blank_rules(LoudAudio, 100, 500)}) :
                IF predicted_label = Raise
                THEN ctl' = [CtlIdle("evaluate_model", Raise, FileAbsent) EXCEPT
                               !.examples = ctl.examples]
                ELSE ctl' = [ctl EXCEPT
                               !.i = ctl.i + 1,
                               !.total = ctl.total + 1,
                               !.correct = IF predicted_label = ex.label
                                           THEN ctl.correct + 1 ELSE ctl.correct,
                               !.preds = Append(ctl.preds, predicted_label)]
  /\ UNCHANGED <<model, scaler, is_trained, disk, runs, call, callVars>>
  /\ UNCHANGED <<extractVars, trainLoopVars, pipeVars, appVars>>

\* EvalEnd computing the accuracy without the test of total
EvalEnd_unguarded ==
  /\ ctl.pc = "e_loop"
  /\ ctl.i > Len(ctl.examples)
  /\ ctl' = [CtlIdle("evaluate_model", IF ctl.total > 0 THEN "None" ELSE Raise, FileAbsent)
               EXCEPT !.examples = ctl.examples,
                      !.total = ctl.total, !.correct = ctl.correct]
  /\ UNCHANGED <<model, scaler, is_trained, disk, runs, call, callVars>>
  /\ UNCHANGED <<extractVars, trainLoopVars, pipeVars, appVars>>

\* lines 400-406: the report; the division is made only when total > 0
EvalEnd ==
  /\ ctl.pc = "e_loop"
  /\ ctl.i > Len(ctl.examples)
  /\ ctl' = [CtlIdle("evaluate_model", "None", FileAbsent) EXCEPT
               !.examples = ctl.examples,
               !.total = ctl.total, !.correct = ctl.correct]
  /\ UNCHANGED <<model, scaler, is_trained, disk, runs, call, callVars>>
  /\ UNCHANGED <<extractVars, trainLoopVars, pipeVars, appVars>>

Next ==
  \/ LoadRead \/ LoadModelField \/ LoadScalerField \/ LoadSetTrained
  \/ \E examples \in ExampleLists : TrainBegin(examples)
  \/ TrainNewScaler \/ TrainFitScaler \/ TrainNewModel \/ TrainFitModel
  \/ TrainSetTrained
  \/ SaveBegin \/ SaveOpen \/ SaveDump
  \/ \E inp \in FacadeInputs : ClassifyBegin(inp[1], inp[2], inp[3])
  \/ ClassifyScale \/ ClassifyPredict \/ ClassifyProba \/ ClassifyReturn
  \/ \E examples \in ExampleLists : EvalBegin(examples)
  \/ EvalExample \/ EvalEnd

Spec == Init /\ [][Next]_vars

\* ------------------------------------------------------------------------
\* Direct calls of the two rule classifiers on every input
\* ------------------------------------------------------------------------
InitClassify ==
  /\ audio_file \in Audios
  /\ start_time \in Starts
  /\ \E d \in Durations : end_time = start_time + d
  /\ result = NoResult
  /\ disk = FileAbsent
  /\ model = NoneObj
  /\ scaler = NoneObj
  /\ is_trained = FALSE
  /\ runs = 0
  /\ ctl = CtlIdle("__init__", "False", FileAbsent)
  /\ call = CallIdle
  /\ NoApp
  /\ NoExtract
  /\ NoTrainLoop
  /\ NoPipeline

CallRules ==
  /\ result.fn = "none"
  /\ \E o \in classify_blank_rules(audio_file, start_time, end_time) :
       result' = [fn |-> "classify_blank_rules", value |-> o.value,
                  rule |-> o.rule, y |-> o.y]
  /\ UNCHANGED <<audio_file, start_time, end_time>>
  /\ UNCHANGED facadeVars
  /\ UNCHANGED <<extractVars, trainLoopVars, pipeVars, appVars>>

CallSilenceType ==
  /\ result.fn = "none"
  /\ \E o \in classify_silence_type(audio_file, start_time, end_time) :
       result' = [fn |-> "classify_silence_type", value |-> o.value,
                  rule |-> o.rule, y |-> o.y]
  /\ UNCHANGED <<audio_file, start_time, end_time>>
  /\ UNCHANGED facadeVars
  /\ UNCHANGED <<extractVars, trainLoopVars, pipeVars, appVars>>

NextClassify == CallRules \/ CallSilenceType

SpecClassify == InitClassify /\ [][NextClassify]_vars

\* ------------------------------------------------------------------------
\* extract_features called on every input
\* ------------------------------------------------------------------------
\* length of the files, in seconds
ExtractSeconds == 4

\* sample rates either side of the 512-sample tests, and one above the 2048
\* samples compared at a transition (a context holds at most sr samples)
ExtractRates == {512, 513, 2049}

ExtractAmps == {0, 3}

\* files of ExtractSeconds seconds whose amplitude changes after 1 or 3 s
ExtractAudios ==
  { [ok |-> TRUE, sr |-> r, n |-> ExtractSeconds * r, cut |-> c * r, head |-> h, tail |-> t] :
      r \in ExtractRates, c \in {1, 3}, h \in ExtractAmps, t \in ExtractAmps }

\* interval bounds, in ticks: the start of the file, inside it, its end
\* and beyond
ExtractTimes == {0, 100, 150, 300, ExtractSeconds * TicksPerSec, (ExtractSeconds + 1) * TicksPerSec}

InitExtract ==
  /\ audio_file \in ExtractAudios
  /\ start_time \in ExtractTimes
  /\ end_time \in ExtractTimes
  /\ result = NoResult
  /\ disk = FileAbsent
  /\ model = NoneObj
  /\ scaler = NoneObj
  /\ is_trained = FALSE
  /\ runs = 0
  /\ ctl = CtlIdle("__init__", "False", FileAbsent)
  /\ call = CallIdle
  /\ NoApp
  /\ NoExtract
  /\ NoTrainLoop
  /\ NoPipeline

\* lines 168-182 (and 285-297): the file is loaded, the region and its two
\* contexts are sliced from it and extract_features is called on them
ExtractInContext ==
  /\ features = << >>
  /\ \E y \in librosa_load_all(audio_file) :
       LET seg    == silence_segment_of(audio_file, y, start_time, end_time)
           before == context_before_of(audio_file, y, start_time)
           after  == context_after_of(audio_file, y, end_time)
       IN  /\ audio_segment' = seg
           /\ context_before' = before
           /\ context_after' = after
           /\ features' = extract_features(audio_file, seg, before, after)
  /\ UNCHANGED <<callVars, facadeVars, trainLoopVars, pipeVars, appVars>>

\* extract_features(audio_segment, sr): the contexts keep their default, None
ExtractAlone ==
  /\ features = << >>
  /\ \E y \in librosa_load_all(audio_file) :
       LET seg == silence_segment_of(audio_file, y, start_time, end_time)
       IN  /\ audio_segment' = seg
           /\ context_before' = NoneChunk
           /\ context_after' = NoneChunk
           /\ features' = extract_features(audio_file, seg, NoneChunk, NoneChunk)
  /\ UNCHANGED <<callVars, facadeVars, trainLoopVars, pipeVars, appVars>>

NextExtract == ExtractInContext \/ ExtractAlone

SpecExtract == InitExtract /\ [][NextExtract]_vars

\* ------------------------------------------------------------------------
\* The feature matrix of train_model
\* ------------------------------------------------------------------------
MaxTrainExamples == 2

\* two files that exist, and one that does not
TrainAudios ==
  { [ok |-> TRUE, sr |-> 513, n |-> 4 * 513, cut |-> 513, head |-> 3, tail |-> 0],
    [ok |-> TRUE, sr |-> 512, n |-> 4 * 512, cut |-> 3 * 512, head |-> 0, tail |-> 3],
    NoAudio }

\* training examples: audio_file, start_time, end_time (ticks) and label
TrainExamples ==
  [audio_file : TrainAudios, start_time : {100, 150}, end_time : {300}, label : Labels]

InitMatrix ==
  /\ training_data \in SeqsUpTo(TrainExamples, MaxTrainExamples)
  /\ example_i = 1
  /\ X = << >>
  /\ y_labels = << >>
  /\ audio_file = NoAudio
  /\ start_time = 0
  /\ end_time = 0
  /\ result = NoResult
  /\ disk = FileAbsent
  /\ model = NoneObj
  /\ scaler = NoneObj
  /\ is_trained = FALSE
  /\ runs = 0
  /\ ctl = CtlIdle("__init__", "False", FileAbsent)
  /\ call = CallIdle
  /\ NoApp
  /\ NoExtract
  /\ NoPipeline

\* lines 285-297: the feature vector of one example whose file exists
feature_row(example) ==
  LET a == example.audio_file
      y == [raised |-> FALSE, lo |-> 0, hi |-> a.n]
  IN  extract_features(a,
                       silence_segment_of(a, y, example.start_time, example.end_time),
                       context_before_of(a, y, example.start_time),
                       context_after_of(a, y, example.end_time))

\* TrainRow leaving the loop at the first file that does not exist
TrainRow_break ==
  /\ example_i >= 1
  /\ example_i <= Len(training_data)
  /\ LET example == training_data[example_i]
     IN  IF ~example.audio_file.ok
         THEN /\ example_i' = Len(training_data) + 1
              /\ UNCHANGED <<X, y_labels>>
         ELSE /\ X' = Append(X, feature_row(example))
              /\ y_labels' = Append(y_labels, encode_label(example.label))
              /\ example_i' = example_i + 1
  /\ UNCHANGED training_data
  /\ UNCHANGED <<callVars, facadeVars, extractVars, pipeVars, appVars>>

\* lines 274-300: one turn of the loop over training_data
TrainRow ==
  /\ example_i >= 1
  /\ example_i <= Len(training_data)
  /\ LET example == training_data[example_i]
     IN  IF ~example.audio_file.ok
         THEN UNCHANGED <<X, y_labels>>
         ELSE /\ X' = Append(X, feature_row(example))
              /\ y_labels' = Append(y_labels, encode_label(example.label))
  /\ example_i' = example_i + 1
  /\ UNCHANGED training_data
  /\ UNCHANGED <<callVars, facadeVars, extractVars, pipeVars, appVars>>

NextMatrix == TrainRow

SpecMatrix == InitMatrix /\ [][NextMatrix]_vars

\* ------------------------------------------------------------------------
\* Processing of a recording: ProcessingThread.run and
\* SilenceDetector.detect_and_classify_all_silences
\* ------------------------------------------------------------------------
\* largest min_silence_duration configured, in seconds (the configuration
\* dialog offers 1..60)
MaxMinSilence == 2

\* amplitudes of a piece of a recording: digital silence, a faint sound
\* (-34 dBFS) and a louder one (-20 dBFS)
PipeAmps == {0, 20, 100}

\* <<cut, cut2, n>>, in samples at 1000 Hz: a middle piece of 1.5 s, of 6 s
\* and of 0.5 s, and a first piece of 6 s
PipeLayouts ==
  { <<1000, 2500, 4000>>, <<1000, 7000, 8000>>, <<2000, 2500, 6000>>, <<6000, 7000, 8000>> }

\* recordings of three pieces
PipeAudios ==
  { [ok |-> TRUE, sr |-> 1000, n |-> l[3], cut |-> l[1], head |-> h, tail |-> t,
     cut2 |-> l[2], last |-> u] :
      l \in PipeLayouts, h \in PipeAmps, t \in PipeAmps, u \in PipeAmps }

InitDetect ==
  /\ audio_file \in PipeAudios \cup {NoAudio}
  /\ config_min_silence_duration \in 1..MaxMinSilence
  /\ min_silence_duration = min_silence_len(config_min_silence_duration)
  /\ silence_segments = << >>
  /\ silences = << >>
  /\ alerts = << >>
  /\ ppc = "detect"
  /\ start_time = 0
  /\ end_time = 0
  /\ result = NoResult
  /\ disk = FileAbsent
  /\ model = NoneObj
  /\ scaler = NoneObj
  /\ is_trained = FALSE
  /\ runs = 0
  /\ ctl = CtlIdle("__init__", "False", FileAbsent)
  /\ call = CallIdle
  /\ NoApp
  /\ NoExtract
  /\ NoTrainLoop

\* silence_detector.py line 190: silence_segments = self.detect_silence_segments(audio_file)
DetectSegments ==
  /\ ppc = "detect"
  /\ silence_segments' = detect_silence_segments(audio_file, min_silence_duration)
  /\ ppc' = "classify"
  /\ UNCHANGED <<config_min_silence_duration, min_silence_duration, silences, alerts>>
  /\ UNCHANGED <<callVars, facadeVars, extractVars, trainLoopVars, appVars>>

\* silence_detector.py lines 193-205: one segment is classified and its
\* record appended
ClassifySegment ==
  /\ ppc = "classify"
  /\ Len(silences) < Len(silence_segments)
  /\ LET segment  == silence_segments[Len(silences) + 1]
         start    == segment[1]
         end      == segment[2]
         duration == end - start
     IN  \E o \in classify_silence_type(audio_file, start, end) :
           LET classification == o.value
           IN  silences' = Append(silences,
                             [start_time |-> start, end_time |-> end,
                              duration |-> duration, type |-> classification,
                              alert_needed |-> (classification = "abnormal")])
  /\ UNCHANGED <<config_min_silence_duration, min_silence_duration, silence_segments, alerts, ppc>>
  /\ UNCHANGED <<callVars, facadeVars, extractVars, trainLoopVars, appVars>>

\* silence_detector.py line 207 and main_window.py lines 31-35: the records
\* are returned to the processing thread
ReturnSilences ==
  /\ ppc = "classify"
  /\ Len(silences) = Len(silence_segments)
  /\ ppc' = "alert"
  /\ UNCHANGED <<config_min_silence_duration, min_silence_duration, silence_segments, silences, alerts>>
  /\ UNCHANGED <<callVars, facadeVars, extractVars, trainLoopVars, appVars>>

IsAbnormal(s) == s.type = "abnormal"

\* main_window.py line 33: abnormal = [s for s in silences if s['type'] == 'abnormal']
abnormal_of(recs) == SelectSeq(recs, IsAbnormal)

\* SendBlankAlert going through every record
SendBlankAlert_all ==
  /\ ppc = "alert"
  /\ Len(alerts) < Len(silences)
  /\ LET blank == silences[Len(alerts) + 1]
     IN  alerts' = Append(alerts,
                     [file |-> audio_file, start_time |-> blank.start_time,
                      end_time |-> blank.end_time, duration |-> blank.duration])
  /\ UNCHANGED <<config_min_silence_duration, min_silence_duration, silence_segments, silences, ppc>>
  /\ UNCHANGED <<callVars, facadeVars, extractVars, trainLoopVars, appVars>>

\* main_window.py lines 41-48: send_blank_alert is called for the next
\* abnormal record
SendBlankAlert ==
  /\ ppc = "alert"
  /\ Len(alerts) < Len(abnormal_of(silences))
  /\ LET blank == abnormal_of(silences)[Len(alerts) + 1]
     IN  alerts' = Append(alerts,
                     [file |-> audio_file, start_time |-> blank.start_time,
                      end_time |-> blank.end_time, duration |-> blank.duration])
  /\ UNCHANGED <<config_min_silence_duration, min_silence_duration, silence_segments, silences, ppc>>
  /\ UNCHANGED <<callVars, facadeVars, extractVars, trainLoopVars, appVars>>

\* main_window.py lines 49-76: no abnormal record is left; the thread goes on
\* to the transcription and emits its results
FinishProcessing ==
  /\ ppc = "alert"
  /\ Len(alerts) = Len(abnormal_of(silences))
  /\ ppc' = "done"
  /\ UNCHANGED <<config_min_silence_duration, min_silence_duration, silence_segments, silences, alerts>>
  /\ UNCHANGED <<callVars, facadeVars, extractVars, trainLoopVars, appVars>>

NextDetect ==
  \/ DetectSegments \/ ClassifySegment \/ ReturnSilences
  \/ SendBlankAlert \/ FinishProcessing

SpecDetect == InitDetect /\ [][NextDetect]_vars

\* ------------------------------------------------------------------------
\* Properties of the rule cascade
\* ------------------------------------------------------------------------
\* label of the first rule of an ordered list of <<condition, label>> that matches
FirstMatch(rules) ==
  LET i == CHOOSE k \in 1..Len(rules) :
             rules[k][1] /\ \A j \in 1..(k - 1) : ~rules[j][1]
  IN  rules[i][2]

RulesReturned == result.fn = "classify_blank_rules" /\ result.value # Raise

CallDuration == end_time - start_time

\* number of samples of a 0.25 s edge window
EdgeLen == audio_file.sr \div 4

\* sums of squares of the first and of the last 0.25 s of the chunk the call loaded
EdgeStartSq == SumSq(audio_file, result.y.lo, Min(result.y.hi, result.y.lo + EdgeLen))

EdgeEndSq == SumSq(audio_file, Max(result.y.lo, result.y.hi - EdgeLen), result.y.hi)

\* RMS > 0.001 on one edge: S/EdgeLen > (0.001 * AmpDen)^2
EdgeLoud(S) == S > EdgeLen

\* min(rms_start, rms_end) / max(rms_start, rms_end) > 0.3, squared
EdgeRatioAbove == 100 * Min(EdgeStartSq, EdgeEndSq) > 9 * Max(EdgeStartSq, EdgeEndSq)

\* min(rms_start, rms_end) / max(rms_start, rms_end) = 0.3, squared
EdgeRatioExact == 100 * Min(EdgeStartSq, EdgeEndSq) = 9 * Max(EdgeStartSq, EdgeEndSq)

\* the edge windows are taken once more than one second of audio is loaded
\* (which leaves room for the two disjoint windows)
EdgesLoaded == ChunkLen(result.y) > audio_file.sr

\* the loaded audio has room for two disjoint 0.25 s windows
EdgesFit == ChunkLen(result.y) > 2 * EdgeLen

\* the interval lies within the signal
IntervalInSignal ==
  /\ 0 <= start_time
  /\ start_time < end_time
  /\ end_time * audio_file.sr <= audio_file.n * TicksPerSec

CascadeLabel(edges) ==
  FirstMatch(<< <<2 * CallDuration < TicksPerSec, "natural">>,
                <<CallDuration > 10 * TicksPerSec, "abnormal">>,
                <<edges /\ EdgeLoud(EdgeStartSq) /\ EdgeLoud(EdgeEndSq)
                        /\ EdgeRatioAbove, "natural">>,
                <<CallDuration > 3 * TicksPerSec, "abnormal">>,
                <<TRUE, "natural">> >>)

\* C1: every label classify_blank_rules returns is the label of the ordered
\* first-match cascade (duration < 0.5 s NATURAL; duration > 10 s ABNORMAL;
\* both 0.25 s edge windows of the loaded audio above RMS 0.001 with
\* min/max > 0.3 NATURAL; duration > 3 s ABNORMAL; otherwise NATURAL), the
\* edge windows being taken when more than 1 s of audio is loaded; for an
\* interval inside the signal it makes no difference to require only that
\* the two windows fit.
C1_RuleCascade ==
  RulesReturned =>
    /\ result.value = CascadeLabel(EdgesLoaded)
    /\ IntervalInSignal => result.value = CascadeLabel(EdgesFit)

\* C1 witness: the fade rule decided a call (3 s < duration <= 10 s, NATURAL)
C1_Witness ==
  /\ RulesReturned
  /\ CallDuration > 3 * TicksPerSec
  /\ CallDuration <= 10 * TicksPerSec
  /\ IntervalInSignal
  /\ result.rule = 3
  /\ result.value = "natural"

\* C2: below 0.5 s the label is NATURAL and above 10 s it is ABNORMAL,
\* whatever the edge energies and the fade ratio of the loaded context.
C2_DurationAlone ==
  RulesReturned =>
    /\ 2 * CallDuration < TicksPerSec => result.value = "natural"
    /\ CallDuration > 10 * TicksPerSec => result.value = "abnormal"

\* C2 witness: an interval longer than 10 s whose edges show a gradual fade
\* is ABNORMAL
C2_Witness ==
  /\ RulesReturned
  /\ CallDuration > 10 * TicksPerSec
  /\ EdgesLoaded /\ EdgeLoud(EdgeStartSq) /\ EdgeLoud(EdgeEndSq) /\ EdgeRatioAbove
  /\ result.value = "abnormal"

\* C3: the thresholds are strict.  For 3 s < duration <= 10 s with both edge
\* windows loaded and above RMS 0.001, the label is NATURAL exactly when
\* min/max > 0.3 (a ratio of exactly 0.3 gives ABNORMAL); a duration of
\* exactly 0.5 s does not return by rule 1 and a duration of exactly 10 s
\* does not return by rule 2.
C3_StrictThresholds ==
  RulesReturned =>
    /\ ( /\ CallDuration > 3 * TicksPerSec
         /\ CallDuration <= 10 * TicksPerSec
         /\ EdgesLoaded /\ EdgeLoud(EdgeStartSq) /\ EdgeLoud(EdgeEndSq) )
       => (result.value = "natural" <=> EdgeRatioAbove)
    /\ 2 * CallDuration = TicksPerSec => result.rule # 1
    /\ CallDuration = 10 * TicksPerSec => result.rule # 2

\* C3 witness: a ratio of exactly 0.3 on a 10 s interval, labelled ABNORMAL by
\* rule 4
C3_Witness ==
  /\ RulesReturned
  /\ CallDuration = 10 * TicksPerSec
  /\ EdgesLoaded /\ EdgeLoud(EdgeStartSq) /\ EdgeLoud(EdgeEndSq)
  /\ EdgeRatioExact
  /\ result.value = "abnormal"
  /\ result.rule = 4

\* C4: every classify call that returns yields NATURAL or ABNORMAL, never a
\* third value (classify_blank_rules and classify_silence_type).
C4_LabelIsBinary ==
  (result.fn # "none" /\ result.value # Raise) =>
     result.value \in {"natural", "abnormal"}

\* ------------------------------------------------------------------------
\* Properties of the facade
\* ------------------------------------------------------------------------
\* C5: classify_blank_ml delegates on the value of is_trained it reads.  Read
\* false: the call is over in the rule classifier, has used neither model nor
\* scaler, and any label it returns is the label of the rule cascade.  Read
\* true: no rule return statement is ever reached, the scaler is used before
\* the model, and any label returned decodes a prediction of the model used.
C5_Delegation ==
  /\ (call.pc # "idle" /\ ~call.trained) =>
       /\ call.pc = "done"
       /\ call.scalerUsed = NoneObj /\ call.modelUsed = NoneObj /\ call.probaModel = NoneObj
       /\ result.value # Raise =>
            (result.rule \in 1..5 /\ result.value = CascadeLabel(EdgesLoaded))
  /\ (call.pc # "idle" /\ call.trained) =>
       /\ result.rule = 0
       /\ ~call.modelUsed.none => ~call.scalerUsed.none
       /\ (call.pc = "done" /\ result.value # Raise) =>
            /\ ~call.scalerUsed.none
            /\ ~call.modelUsed.none
            /\ call.pred \in call.modelUsed.classes
            /\ result.value = (IF call.pred = 1 THEN "natural" ELSE "abnormal")

\* C5 witness: a 0.3 s interval, NATURAL by rule 1, labelled ABNORMAL by the
\* learned path of a trained facade
C5_Witness ==
  /\ call.pc = "done"
  /\ call.trained
  /\ end_time - start_time = 30
  /\ result.value = "abnormal"
  /\ ~call.modelUsed.none

Compatible(file) ==
  /\ file.kind = "dict"
  /\ file.keys = {"model", "scaler"}
  /\ ~Unusable(file.model)
  /\ ~Unusable(file.scaler)

\* C7: a facade constructed on an artifact that is unreadable, incomplete or
\* fitted for another feature schema is UNTRAINED, holds none of the
\* artifact's fields, and its classify calls take the rule path.
C7_IncompatibleArtifactIgnored ==
  (ctl.op = "__init__" /\ ~Compatible(ctl.data)) =>
     /\ ~is_trained
     /\ model = NoneObj
     /\ scaler = NoneObj
     /\ call.pc # "idle" => ~call.trained

\* the step in which a train_model call finds no resolvable example
TrainWithoutRows ==
  /\ ctl.pc = "idle"
  /\ ctl' # ctl
  /\ ctl'.op = "train_model"
  /\ RowsOf(ctl'.examples) = {}

\* C8: a train_model call that keeps no example returns False in that step,
\* leaving model_file, model, scaler and is_trained as they were; it never
\* gets to the statements that assign them.
C8_NoExamplesNoChange ==
  /\ [][TrainWithoutRows =>
          /\ ctl'.pc = "idle"
          /\ ctl'.ret = "False"
          /\ UNCHANGED <<disk, model, scaler, is_trained>>]_vars
  /\ []((ctl.op = "train_model" /\ ctl.pc # "idle") => RowsOf(ctl.examples) # {})

\* C8 witness: train_model has returned False on a list of two missing
\* files, on a trained facade whose artifact is still on disk
C8_Witness ==
  /\ ctl.op = "train_model"
  /\ ctl.pc = "idle"
  /\ ctl.ret = "False"
  /\ Len(ctl.examples) = 2
  /\ is_trained
  /\ Compatible(disk)
  /\ disk.model = model
  /\ disk.scaler = scaler

\* C9: when train_model has returned True, a facade constructed on model_file
\* is TRAINED with the model and scaler of the trainer; and whenever the
\* content of model_file changes it becomes the complete new artifact (the
\* file is never seen in another state than the previous or the new artifact).
C9_RoundTrip ==
  /\ []((ctl.op = "train_model" /\ ctl.pc = "idle" /\ ctl.ret = "True") =>
          /\ Constructed(disk).is_trained
          /\ Constructed(disk).model = model
          /\ Constructed(disk).scaler = scaler
          /\ model.fitted /\ scaler.fitted)
  /\ [][disk' # disk => disk' = pickle_dump(model, scaler)]_vars

\* C10: the scaler and the model a classify call works with are fitted and
\* belong to the same artifact or training run.
C10_NoTornArtifact ==
  (call.pc # "idle" /\ call.trained) =>
     /\ call.pc \in {"c_predict", "c_proba", "done"} =>
          (call.scalerUsed.none \/ call.scalerUsed.fitted)
     /\ ~call.modelUsed.none =>
          (call.modelUsed.fitted /\ call.modelUsed.run = call.scalerUsed.run)
     /\ ~call.probaModel.none =>
          (call.probaModel.fitted /\ call.probaModel.run = call.scalerUsed.run)

\* ------------------------------------------------------------------------
\* Frame of the classify calls
\* ------------------------------------------------------------------------
\* a step of a classify_blank_ml call, made by the classifying thread or,
\* inside evaluate_model, by the controlling thread
ClassifyStep == call' # call \/ (ctl.pc = "e_loop" /\ ctl' # ctl)

\* the learned-path call has read the model once, or the same model twice
ModelReadOnce == call.probaModel \in {NoneObj, call.modelUsed}

\* C11: no step of a classify call changes model, scaler, is_trained or
\* model_file (nor the other thread's position); and a learned-path call
\* that ran among other classify calls ends with an outcome of the same call
\* run alone on the objects it read.
C11_ClassifyFrame ==
  /\ [][ClassifyStep => UNCHANGED <<model, scaler, is_trained, disk, runs>>]_vars
  /\ [][call' # call => ctl' = ctl]_vars
  /\ []((call.pc = "done" /\ call.trained /\ ModelReadOnce) =>
          result.value \in classify_learned(audio_file, call.modelUsed, call.scalerUsed))

\* C11 witness: a learned-path call has returned a label while
\* evaluate_model, in the other thread, has classified an example
C11_Witness ==
  /\ call.pc = "done"
  /\ call.trained
  /\ result.value \in Labels
  /\ ctl.pc = "e_loop"
  /\ ctl.total >= 1

\* ------------------------------------------------------------------------
\* Counts of evaluate_model
\* ------------------------------------------------------------------------
\* number of resolvable examples of a list whose predicted label, taken in
\* order from preds, equals their label
RECURSIVE CountCorrect(_, _)
CountCorrect(examples, preds) ==
  IF examples = << >> THEN 0
  ELSE IF ~Head(examples).ok THEN CountCorrect(Tail(examples), preds)
  ELSE (IF Head(preds) = Head(examples).label THEN 1 ELSE 0)
       + CountCorrect(Tail(examples), Tail(preds))

EvaluateReturned == ctl.op = "evaluate_model" /\ ctl.pc = "idle"

FeatureSchema ==
  << "duration", "rms_energy", "spectral_centroid", "spectral_rolloff",
     "context_rms_before", "fade_in_score", "context_rms_after", "fade_out_score",
     "transition_abruptness", "zero_crossing_rate" >>

\* C13: whatever the lengths of the region and of the contexts, and whether
\* the contexts are given or not, extract_features returns FEATURE_DIM
\* entries, and entry i is the i-th quantity of the schema or the literal 0
\* that stands for it; duration and rms_energy are always computed.
C13_VectorShape ==
  features # << >> =>
     /\ Len(features) = FEATURE_DIM
     /\ Len(FeatureSchema) = FEATURE_DIM
     /\ \A i \in 1..Len(features) : features[i].of \in {FeatureSchema[i], "0"}
     /\ features[1].of = "duration"
     /\ features[2].of = "rms_energy"
     /\ (features[3].of = "0") <=> (ChunkLen(audio_segment) <= 512)
     /\ (features[3].of = "0") <=> (features[4].of = "0")
     /\ (features[5].of = "0") <=> (features[6].of = "0")
     /\ (features[7].of = "0") <=> (features[8].of = "0")

\* C13 witness: a vector for an empty region at the end of the file, with a
\* long context before it and an empty one after it
C13_Witness ==
  /\ features # << >>
  /\ ChunkLen(audio_segment) = 0
  /\ context_before # NoneChunk
  /\ ChunkLen(context_before) > 512
  /\ context_after # NoneChunk
  /\ ChunkLen(context_after) = 0
  /\ features[5].of = "context_rms_before"
  /\ features[7].of = "0"

\* C14: no entry of a vector returned by extract_features is NaN.
C14_NoNaN ==
  features # << >> => \A i \in 1..Len(features) : features[i].val # "nan"

\* ------------------------------------------------------------------------
\* Properties of the processing of a recording
\* ------------------------------------------------------------------------
SegmentsReturned == ppc \notin {"none", "detect"}

C16_AlertPerAbnormal ==
  /\ \A k \in 1..Len(silences) :
       /\ silences[k].alert_needed <=> (silences[k].type = "abnormal")
       /\ silences[k].duration = silences[k].end_time - silences[k].start_time
       /\ silences[k].start_time = silence_segments[k][1]
       /\ silences[k].end_time = silence_segments[k][2]
  /\ Len(alerts) <= Cardinality({k \in 1..Len(silences) : silences[k].type = "abnormal"})
  /\ \E f \in [1..Len(alerts) -> 1..Len(silences)] :
       /\ \A j \in 1..Len(alerts) :
            /\ silences[f[j]].type = "abnormal"
            /\ alerts[j].file = audio_file
            /\ alerts[j].start_time = silences[f[j]].start_time
            /\ alerts[j].end_time = silences[f[j]].end_time
            /\ alerts[j].duration = silences[f[j]].duration
       /\ \A i, j \in 1..Len(alerts) : i < j => f[i] < f[j]
  /\ ppc = "done" =>
       Len(alerts) = Cardinality({k \in 1..Len(silences) : silences[k].type = "abnormal"})

\* C16 witness: the thread is done with two records, one of them abnormal,
\* and one alert
C16_Witness ==
  /\ ppc = "done"
  /\ Len(silences) = 2
  /\ Len(alerts) = 1
  /\ \E k \in 1..2 : silences[k].type = "natural"

\* C17: a recording that cannot be resolved never yields a returned list of
\* silences: the processing thread does not get past the detection.
C17_MissingAudioPropagates ==
  ~audio_file.ok => ~SegmentsReturned

\* C18: a call of the rule classifier on a readable file with an interval
\* that is empty, reversed or not within the signal returns no label.
C18_InvalidIntervalFails ==
  (result.fn = "classify_blank_rules" /\ audio_file.ok /\ ~IntervalInSignal) =>
     result.value = Raise

\* C19: the type recorded for a silence is a label that the facade, which is
\* UNTRAINED, returns for the same recording and interval.
C19_PipelineUsesFacade ==
  \A k \in 1..Len(silences) :
     silences[k].type \in
        {o.value : o \in classify_blank_rules(audio_file, silences[k].start_time,
                                              silences[k].end_time)}

\* ------------------------------------------------------------------------
\* Properties of the feature matrix
\* ------------------------------------------------------------------------
\* positions, in input order, of the examples read so far whose file exists
RowsRead ==
  SortedSeq({i \in 1..(example_i - 1) : training_data[i].audio_file.ok})

\* every entry of the row was computed on the file of the example, between
\* one second before the start of its interval and one second after its end
RowFromExample(row, example) ==
  LET a  == example.audio_file
      lo == ToSample(example.start_time, a.sr) - a.sr
      hi == ToSample(example.end_time, a.sr) + a.sr
  IN  \A i \in 1..Len(row) :
        row[i].of # "0" =>
           /\ row[i].file = a
           /\ \A j \in 1..Len(row[i].args) :
                /\ lo <= row[i].args[j].lo
                /\ row[i].args[j].hi <= hi
                /\ row[i].args[j].hi <= a.n

\* C20: at every point of the loop of train_model the matrix has one row
\* and one encoded label per example read whose file exists, in input order;
\* the row is the feature vector of that example, computed on its file
\* within one second of its interval: the examples whose file does not exist
\* leave no trace, and the rows of the others depend on nothing else.
C20_MatrixRows ==
  example_i >= 1 =>
     /\ Len(X) = Len(RowsRead)
     /\ Len(y_labels) = Len(RowsRead)
     /\ \A j \in 1..Len(RowsRead) :
          LET example == training_data[RowsRead[j]]
          IN  /\ X[j] = feature_row(example)
              /\ Len(X[j]) = FEATURE_DIM
              /\ RowFromExample(X[j], example)
              /\ y_labels[j] = encode_label(example.label)

\* C20 witness: the loop is over; the first file did not exist and the
\* second gave the only row
C20_Witness ==
  /\ Len(training_data) = 2
  /\ example_i = 3
  /\ ~training_data[1].audio_file.ok
  /\ training_data[2].audio_file.ok
  /\ Len(X) = 1

\* ------------------------------------------------------------------------
\* The encoding of the labels
\* ------------------------------------------------------------------------
\* C21: every label train_model has encoded is 1 for natural and 0 for
\* abnormal, and the decoding of the learned path gives the label back:
\* 1 is read as natural, 0 as abnormal.
C21_LabelRoundTrip ==
  /\ Len(y_labels) = Len(RowsRead)
  /\ \A j \in 1..Len(y_labels) :
       LET label == training_data[RowsRead[j]].label
       IN  /\ label = "natural" => y_labels[j] = 1
           /\ label = "abnormal" => y_labels[j] = 0
           /\ decode_prediction(y_labels[j]) = label

\* C21 witness: a natural and an abnormal example have both been encoded
C21_Witness ==
  /\ Len(y_labels) = 2
  /\ training_data[1].label = "natural"
  /\ training_data[2].label = "abnormal"
  /\ y_labels = <<1, 0>>

\* ------------------------------------------------------------------------
\* The 512-sample tests of extract_features
\* ------------------------------------------------------------------------
\* the entry is the literal 0
IsZeroEntry(entry) == entry.of = "0" /\ entry.val = "zero"

\* the entry is the quantity name computed on the samples c of the file
ComputedOn(entry, name, c) ==
  /\ entry.of = name
  /\ entry.file = audio_file
  /\ entry.args = <<c>>

\* the entry is the RMS of the samples c: 0 exactly when all of them are 0
RmsOf(entry, name, c) ==
  /\ ComputedOn(entry, name, c)
  /\ entry.val \in {"zero", "finite"}
  /\ (entry.val = "zero") <=> (SumSq(audio_file, c.lo, c.hi) = 0)

\* the spectral centroid and rolloff are computed when the region has more
\* than 512 samples and are 0 otherwise
SpectralAbove512 ==
  IF ChunkLen(audio_segment) > 512
  THEN /\ ComputedOn(features[3], "spectral_centroid", audio_segment)
       /\ ComputedOn(features[4], "spectral_rolloff", audio_segment)
  ELSE IsZeroEntry(features[3]) /\ IsZeroEntry(features[4])

\* the entries i and i + 1 of a context c that must have at least least
\* samples to be analysed
ContextEntries(c, i, rms_name, fade_name, least) ==
  IF c # NoneChunk /\ ChunkLen(c) >= least
  THEN /\ RmsOf(features[i], rms_name, c)
       /\ ComputedOn(features[i + 1], fade_name, c)
  ELSE IsZeroEntry(features[i]) /\ IsZeroEntry(features[i + 1])

\* C22 as stated: the context entries are computed for every context of 512
\* samples or more and are 0 for an absent or shorter context.
C22_ContextFrom512 ==
  features # << >> =>
     /\ ContextEntries(context_before, 5, "context_rms_before", "fade_in_score", 512)
     /\ ContextEntries(context_after, 7, "context_rms_after", "fade_out_score", 512)
     /\ SpectralAbove512

\* C22: the RMS and the fade score of a context are computed when the
\* context has more than 512 samples, and are 0 when it is absent or has 512
\* samples or fewer; the spectral centroid and rolloff are computed when the
\* region has more than 512 samples and are 0 otherwise.
C22_ContextAbove512 ==
  features # << >> =>
     /\ ContextEntries(context_before, 5, "context_rms_before", "fade_in_score", 513)
     /\ ContextEntries(context_after, 7, "context_rms_after", "fade_out_score", 513)
     /\ SpectralAbove512

\* C22 witness: a context of exactly 512 audible samples before the region
\* gave two 0 entries
C22_Witness ==
  /\ features # << >>
  /\ context_before # NoneChunk
  /\ ChunkLen(context_before) = 512
  /\ SumSq(audio_file, context_before.lo, context_before.hi) > 0
  /\ IsZeroEntry(features[5])
  /\ IsZeroEntry(features[6])

\* ------------------------------------------------------------------------
\* The transition abruptness
\* ------------------------------------------------------------------------
\* both contexts were given to extract_features
BothContexts ==
  /\ features # << >>
  /\ context_before # NoneChunk
  /\ context_after # NoneChunk

\* C23: the abruptness is computed on the last w samples of the context
\* before and the first w samples of the context after, with
\* w = min(len(before), len(after), 2048); it is a number of [0, 1], never
\* NaN, and is 0 when both slices have no energy; for every pair of
\* contexts, w = 0 included.
C23_AbruptnessBounded ==
  BothContexts =>
     LET w == Min(Min(ChunkLen(context_before), ChunkLen(context_after)), 2048)
         t == features[9]
     IN  /\ t.of = "transition_abruptness"
         /\ t.args[1] = [lo |-> context_before.hi - w, hi |-> context_before.hi]
         /\ t.args[2] = [lo |-> context_after.lo, hi |-> context_after.lo + w]
         /\ ChunkLen(t.args[1]) = ChunkLen(t.args[2])
         /\ t.val \in {"zero", "finite"}
         /\ (/\ SumSq(audio_file, t.args[1].lo, t.args[1].hi) = 0
             /\ SumSq(audio_file, t.args[2].lo, t.args[2].hi) = 0) => t.val = "zero"

\* ------------------------------------------------------------------------
\* Consistency of the facade between calls
\* ------------------------------------------------------------------------
\* the controlling thread is between two calls
Quiescent == ctl.pc = "idle"

\* the step that ends a train_model call that failed after building X
TrainFails ==
  /\ ctl.op = "train_model"
  /\ ctl.pc # "idle"
  /\ ctl'.pc = "idle"
  /\ ctl'.ret \in {"False", Raise}

\* C24: between calls, whenever is_trained holds, model and scaler are both
\* present, both fitted, and of the same artifact or training run; a facade
\* whose constructor failed to load holds no object; and a train_model call
\* that fails leaves no object of its own run in the facade.
C24_FacadeConsistent ==
  /\ []((Quiescent /\ is_trained) =>
          /\ ~model.none /\ ~scaler.none
          /\ model.fitted /\ scaler.fitted
          /\ model.run = scaler.run)
  /\ []((ctl.op = "__init__" /\ ctl.ret = "False") =>
          (model = NoneObj /\ scaler = NoneObj))
  /\ [][TrainFails => (model'.run # ctl.run /\ scaler'.run # ctl.run)]_vars

\* ------------------------------------------------------------------------
\* Monotonicity of is_trained
\* ------------------------------------------------------------------------
\* load_model has read both fields of the artifact into the facade
LoadedBoth ==
  /\ ctl.op = "load_model"
  /\ ctl.pc = "l_trained"
  /\ {"model", "scaler"} \subseteq ctl.data.keys
  /\ model = ctl.data.model
  /\ scaler = ctl.data.scaler

\* train_model has fitted the scaler and the model of its run
FittedBoth ==
  /\ ctl.op = "train_model"
  /\ ctl.pc = "t_trained"
  /\ scaler = Fitted(ctl.run, FEATURE_DIM, {})
  /\ model.fitted
  /\ model.run = ctl.run

\* C25: no step takes is_trained from true to false; it changes only from
\* false to true, and only in the statement of load_model that follows the
\* reading of both fields or in the statement of train_model that follows a
\* successful fit.
C25_TrainedMonotone ==
  /\ [][is_trained => is_trained']_vars
  /\ [][is_trained' # is_trained => (LoadedBoth \/ FittedBoth)]_vars

\* C25 witness: a facade constructed untrained on an unreadable file has
\* become trained in train_model, after the fit and before anything is saved
C25_Witness ==
  /\ disk = FileUnreadable
  /\ ctl.op = "train_model"
  /\ ctl.pc = "s_open"
  /\ is_trained
  /\ model.fitted
  /\ model.run = ctl.run

\* ------------------------------------------------------------------------
\* AudioRecorder (recorder.py)
\* ------------------------------------------------------------------------
\* Time is counted in half minutes.  The chunks read from the audio stream
\* are numbered 1, 2, ... in the order the stream delivers them.

\* last value of the clock
MaxClock == 4

\* chunks the stream delivers in all
MaxChunks == 3

\* calls of start_recording that start a thread
MaxStarts == 2

\* exceptions raised by the stream and the file system in all
MaxErrors == 1

\* config["audio"]["max_duration"], in minutes: the smallest value the
\* configuration dialog accepts
config_max_duration == 1

\* lines 49-70: generate_filename under the default naming pattern
\* record_%jour%-%mois%-%annee%_%heure%h%minutes%, whose finest field is the
\* minute: the file is named after the minute of the clock
generate_filename(t) == t \div 2

\* lines 109, 117-118: elapsed_time >= max_duration, both in seconds
max_duration_reached(t, started) ==
  (t - started) * 30 >= config_max_duration * 60

\* the threads that have not returned from _record
AliveThreads == {t \in 1..Len(threads) : threads[t] # "dead"}

\* lines 159-186: _save_current_recording writes the frames to current_file
\* (an existing file of that name is replaced, lines 171 and 184)
written(files, r) == (r.current_file :> r.frames) @@ files

InitRecorder ==
  /\ NoRecorder
  /\ NoWindow
  /\ NoStorage
  /\ audio_file = NoAudio
  /\ start_time = 0
  /\ end_time = 0
  /\ result = NoResult
  /\ disk = FileAbsent
  /\ model = NoneObj
  /\ scaler = NoneObj
  /\ is_trained = FALSE
  /\ runs = 0
  /\ ctl = CtlIdle("__init__", "False", FileAbsent)
  /\ call = CallIdle
  /\ NoExtract
  /\ NoTrainLoop
  /\ NoPipeline

\* what the steps of the recorder leave alone
RecorderFrame ==
  UNCHANGED <<callVars, facadeVars, extractVars, trainLoopVars, pipeVars, dbVars>>

\* the clock advances
Tick ==
  /\ now < MaxClock
  /\ now' = now + 1
  /\ UNCHANGED <<recorder, threads, rcall, chunks, fs, errors>>
  /\ RecorderFrame

\* start_recording starting its thread before is_recording is set
start_recording_threadFirst ==
  /\ rcall.pc = "idle"
  /\ Len(threads) < MaxStarts
  /\ threads' = Append(threads, "while")
  /\ IF recorder.is_recording
     THEN /\ rcall' = RCallIdle("start_recording", "False", NoFile)
          /\ UNCHANGED <<recorder, errors>>
     ELSE /\ recorder' = [recorder EXCEPT !.audio = "open", !.stream = "open",
                            !.is_recording = TRUE, !.frames = << >>,
                            !.start_time = now,
                            !.current_file = generate_filename(now),
                            !.recording_thread = Len(threads) + 1]
          /\ rcall' = RCallIdle("start_recording", "True", NoFile)
          /\ UNCHANGED errors
  /\ UNCHANGED <<now, chunks, fs>>
  /\ RecorderFrame

\* lines 72-105: start_recording.  Nothing else runs on the recorder between
\* its statements (no thread is alive unless is_recording is stuck, and then
\* the call returns at line 76); audio.open may raise.
start_recording ==
  /\ rcall.pc = "idle"
  /\ IF recorder.is_recording
     THEN /\ rcall' = RCallIdle("start_recording", "False", NoFile)
          /\ UNCHANGED <<recorder, threads, errors>>
     ELSE \/ /\ Len(threads) < MaxStarts
             /\ recorder' = [recorder EXCEPT !.audio = "open", !.stream = "open",
                               !.is_recording = TRUE, !.frames = << >>,
                               !.start_time = now,
                               !.current_file = generate_filename(now),
                               !.recording_thread = Len(threads) + 1]
             /\ threads' = Append(threads, "while")
             /\ rcall' = RCallIdle("start_recording", "True", NoFile)
             /\ UNCHANGED errors
          \/ /\ Len(errors) < MaxErrors
             /\ errors' = Append(errors, "open")
             /\ recorder' = [recorder EXCEPT !.audio = "open"]
             /\ rcall' = RCallIdle("start_recording", "False", NoFile)
             /\ UNCHANGED threads
  /\ UNCHANGED <<now, chunks, fs>>
  /\ RecorderFrame

\* line 111: while self.is_recording (the thread waits here for the stream
\* once the stream has delivered all its chunks)
RecWhile(t) ==
  /\ threads[t] = "while"
  /\ IF recorder.is_recording
     THEN /\ chunks < MaxChunks
          /\ threads' = [threads EXCEPT ![t] = "read"]
     ELSE threads' = [threads EXCEPT ![t] = "dead"]
  /\ UNCHANGED <<recorder, now, rcall, chunks, fs, errors>>
  /\ RecorderFrame

\* lines 113-118 and 129-131: read a chunk and append it, then compare the
\* elapsed time with max_duration; or the read raises and the loop is left
RecRead(t) ==
  /\ threads[t] = "read"
  /\ \/ /\ chunks' = chunks + 1
        /\ recorder' = [recorder EXCEPT !.frames = Append(@, chunks + 1)]
        /\ threads' = [threads EXCEPT ![t] =
                         IF max_duration_reached(now, recorder.start_time)
                         THEN "save" ELSE "while"]
        /\ UNCHANGED errors
     \/ /\ Len(errors) < MaxErrors
        /\ errors' = Append(errors, "read")
        /\ threads' = [threads EXCEPT ![t] = "dead"]
        /\ UNCHANGED <<recorder, chunks>>
  /\ UNCHANGED <<now, rcall, fs>>
  /\ RecorderFrame

\* line 120: _save_current_recording() of the rotation (frames is not
\* empty); an exception of the file system leaves the loop
RecSave(t) ==
  /\ threads[t] = "save"
  /\ \/ /\ fs' = written(fs, recorder)
        /\ threads' = [threads EXCEPT ![t] = "if"]
        /\ UNCHANGED errors
     \/ /\ Len(errors) < MaxErrors
        /\ errors' = Append(errors, "save")
        /\ threads' = [threads EXCEPT ![t] = "dead"]
        /\ UNCHANGED fs
  /\ UNCHANGED <<recorder, now, rcall, chunks>>
  /\ RecorderFrame

\* line 123: if self.is_recording
RecIf(t) ==
  /\ threads[t] = "if"
  /\ threads' = [threads EXCEPT ![t] = IF recorder.is_recording THEN "reset" ELSE "while"]
  /\ UNCHANGED <<recorder, now, rcall, chunks, fs, errors>>
  /\ RecorderFrame

\* lines 124-126: the next segment starts
RecReset(t) ==
  /\ threads[t] = "reset"
  /\ recorder' = [recorder EXCEPT !.frames = << >>,
                                  !.start_time = now,
                                  !.current_file = generate_filename(now)]
  /\ threads' = [threads EXCEPT ![t] = "while"]
  /\ UNCHANGED <<now, rcall, chunks, fs, errors>>
  /\ RecorderFrame

\* lines 135-139: stop_recording returns None when not recording; else it
\* clears is_recording
StopFlag ==
  /\ rcall.pc = "idle"
  /\ IF ~recorder.is_recording
     THEN /\ rcall' = RCallIdle("stop_recording", "None", NoFile)
          /\ UNCHANGED recorder
     ELSE /\ recorder' = [recorder EXCEPT !.is_recording = FALSE]
          /\ rcall' = [RCallIdle("stop_recording", "none", NoFile) EXCEPT !.pc = "join"]
  /\ UNCHANGED <<now, threads, chunks, fs, errors>>
  /\ RecorderFrame

\* lines 142-143: recording_thread.join() returns once the thread has
\* returned from _record
StopJoin ==
  /\ rcall.pc = "join"
  /\ recorder.recording_thread # 0 => threads[recorder.recording_thread] = "dead"
  /\ rcall' = [rcall EXCEPT !.pc = "save"]
  /\ UNCHANGED <<recorder, now, threads, chunks, fs, errors>>
  /\ RecorderFrame

\* lines 146-157: the frames are saved (nothing is written when there is no
\* frame), the stream is closed, and the saved file is returned; an exception
\* of the file system ends the call before the stream is closed
StopSave ==
  /\ rcall.pc = "save"
  /\ \/ /\ recorder.frames = << >>
        /\ recorder' = [recorder EXCEPT !.stream = "closed", !.audio = "terminated"]
        /\ rcall' = RCallIdle("stop_recording", "None", NoFile)
        /\ UNCHANGED <<fs, errors>>
     \/ /\ recorder.frames # << >>
        /\ fs' = written(fs, recorder)
        /\ recorder' = [recorder EXCEPT !.stream = "closed", !.audio = "terminated"]
        /\ rcall' = RCallIdle("stop_recording", "file", recorder.current_file)
        /\ UNCHANGED errors
     \/ /\ recorder.frames # << >>
        /\ Len(errors) < MaxErrors
        /\ errors' = Append(errors, "save")
        /\ rcall' = RCallIdle("stop_recording", Raise, NoFile)
        /\ UNCHANGED <<recorder, fs>>
  /\ UNCHANGED <<now, threads, chunks>>
  /\ RecorderFrame

\* lines 208-223: get_recording_info
get_recording_info ==
  /\ rcall.pc = "idle"
  /\ rcall' = [RCallIdle("get_recording_info", "info", NoFile) EXCEPT
                 !.info = [is_recording |-> recorder.is_recording,
                           current_file |-> recorder.current_file]]
  /\ UNCHANGED <<recorder, now, threads, chunks, fs, errors>>
  /\ RecorderFrame

\* the recorder called directly, as by the test of lines 245-266: any
\* sequence of calls from one thread
NextRecorder ==
  \/ Tick /\ UNCHANGED windowVars
  \/ start_recording /\ UNCHANGED windowVars
  \/ \E t \in 1..Len(threads) :
       \/ RecWhile(t) /\ UNCHANGED windowVars
       \/ RecRead(t) /\ UNCHANGED windowVars
       \/ RecSave(t) /\ UNCHANGED windowVars
       \/ RecIf(t) /\ UNCHANGED windowVars
       \/ RecReset(t) /\ UNCHANGED windowVars
  \/ StopFlag /\ UNCHANGED windowVars
  \/ StopJoin /\ UNCHANGED windowVars
  \/ StopSave /\ UNCHANGED windowVars
  \/ get_recording_info /\ UNCHANGED windowVars

SpecRecorder == InitRecorder /\ [][NextRecorder]_vars

\* ------------------------------------------------------------------------
\* Properties of the recorder
\* ------------------------------------------------------------------------
\* a step that is a whole start_recording call / the first step of a
\* stop_recording call
StartCalled ==
  /\ rcall.pc = "idle"
  /\ rcall'.op = "start_recording"
  /\ (rcall' # rcall \/ Len(threads') # Len(threads))

StopCalled ==
  /\ rcall.pc = "idle"
  /\ rcall'.op = "stop_recording"
  /\ rcall' # rcall

InfoCalled ==
  /\ rcall.pc = "idle"
  /\ rcall'.op = "get_recording_info"
  /\ rcall' # rcall

\* C27: between two calls, is_recording is true exactly when a thread is in
\* the recording loop; once the thread of the recording has left the loop,
\* for whatever reason, is_recording is false; so get_recording_info never
\* reports is_recording when no thread is capturing.
C27_RecordingIffCapturing ==
  /\ [](rcall.pc = "idle" => (recorder.is_recording <=> AliveThreads # {}))
  /\ []((recorder.recording_thread # 0 /\ threads[recorder.recording_thread] = "dead")
          => ~recorder.is_recording)
  /\ [][InfoCalled => (rcall'.info.is_recording => AliveThreads # {})]_vars

\* the chunks a file holds
ChunksOf(f) == {fs[f][i] : i \in 1..Len(fs[f])}

\* the files that hold chunk c
FilesHolding(c) == {f \in DOMAIN fs : c \in ChunksOf(f)}

\* a stop_recording call has returned and no save has failed
StoppedClean ==
  /\ rcall.op = "stop_recording"
  /\ rcall.pc = "idle"
  /\ \A i \in 1..Len(errors) : errors[i] # "save"

\* C28: once stop_recording has returned, every chunk the stream delivered
\* is in exactly one saved file, once, whatever the interleaving of the
\* rotation with the stop; and a saved file is never replaced by other
\* content.
C28_ChunksConserved ==
  /\ [](StoppedClean =>
          \A c \in 1..chunks :
             /\ Cardinality(FilesHolding(c)) = 1
             /\ \A f \in FilesHolding(c) :
                  Cardinality({i \in 1..Len(fs[f]) : fs[f][i] = c}) = 1)
  /\ [][\A f \in DOMAIN fs : (f \in DOMAIN fs' /\ fs'[f] = fs[f])]_vars

\* ------------------------------------------------------------------------
\* MainWindow (main_window.py): recording and post-processing
\* ------------------------------------------------------------------------
\* lines 149-188: the start button is enabled, the stop button is not
InitWindow ==
  /\ NoRecorder
  /\ gui = [btn_start_recording |-> TRUE, btn_stop_recording |-> FALSE]
  /\ processing = << >>
  /\ NoStorage
  /\ audio_file = NoAudio
  /\ start_time = 0
  /\ end_time = 0
  /\ result = NoResult
  /\ disk = FileAbsent
  /\ model = NoneObj
  /\ scaler = NoneObj
  /\ is_trained = FALSE
  /\ runs = 0
  /\ ctl = CtlIdle("__init__", "False", FileAbsent)
  /\ call = CallIdle
  /\ NoExtract
  /\ NoTrainLoop
  /\ NoPipeline

\* lines 256-273: MainWindow.start_recording, the slot of the start button
ClickStart ==
  /\ gui.btn_start_recording
  /\ start_recording
  /\ gui' = IF rcall'.ret = "True"
            THEN [btn_start_recording |-> FALSE, btn_stop_recording |-> TRUE]
            ELSE gui
  /\ UNCHANGED processing

\* lines 283-298 and 318-341: what MainWindow.stop_recording does once
\* recorder.stop_recording has returned; process_recording starts a
\* ProcessingThread on the saved file.  An exception of
\* recorder.stop_recording leaves the slot before any of it.
AfterStop ==
  IF rcall'.pc # "idle" \/ rcall'.ret = Raise
  THEN UNCHANGED <<gui, processing>>
  ELSE IF rcall'.ret = "file"
  THEN /\ gui' = [btn_start_recording |-> FALSE, btn_stop_recording |-> FALSE]
       /\ processing' = Append(processing,
                               [audio_file |-> rcall'.saved_file, state |-> "running"])
  ELSE /\ gui' = [btn_start_recording |-> TRUE, btn_stop_recording |-> FALSE]
       /\ UNCHANGED processing

\* lines 275-281: MainWindow.stop_recording, the slot of the stop button,
\* up to the join of the recording thread
ClickStop ==
  /\ gui.btn_stop_recording
  /\ StopFlag
  /\ AfterStop

\* the slot waits in recording_thread.join()
ClickStopJoin ==
  /\ StopJoin
  /\ UNCHANGED windowVars

\* the rest of the slot
ClickStopSave ==
  /\ StopSave
  /\ AfterStop

\* lines 25-76: ProcessingThread.run, which ends by emitting finished_signal
ProcessingRun(p) ==
  /\ processing[p].state = "running"
  /\ processing' = [processing EXCEPT ![p].state = "emitted"]
  /\ UNCHANGED <<gui, recVars>>
  /\ RecorderFrame

\* lines 348-381: on_processing_finished, run by the window's thread
on_processing_finished(p) ==
  /\ processing[p].state = "emitted"
  /\ rcall.pc = "idle"
  /\ processing' = [processing EXCEPT ![p].state = "done"]
  /\ gui' = [gui EXCEPT !.btn_start_recording = TRUE]
  /\ UNCHANGED recVars
  /\ RecorderFrame

\* steps of the recording thread
RecordStep ==
  \E t \in 1..Len(threads) :
     RecWhile(t) \/ RecRead(t) \/ RecSave(t) \/ RecIf(t) \/ RecReset(t)

NextWindow ==
  \/ Tick /\ UNCHANGED windowVars
  \/ ClickStart
  \/ ClickStop
  \/ ClickStopJoin
  \/ ClickStopSave
  \/ RecordStep /\ UNCHANGED windowVars
  \/ \E p \in 1..Len(processing) : ProcessingRun(p)
  \/ \E p \in 1..Len(processing) : on_processing_finished(p)

\* The threads are scheduled and the event loop delivers queued signals; a
\* slot that was entered runs on.  The user need not start a recording, but
\* stops the one that runs: a recording left running for ever has no last
\* file, and what is asked of the saved files is asked once it has ended.
WindowFairness ==
  /\ WF_vars(RecordStep /\ UNCHANGED windowVars)
  /\ WF_vars(ClickStop)
  /\ WF_vars(ClickStopJoin)
  /\ WF_vars(ClickStopSave)
  /\ WF_vars(\E p \in 1..Len(processing) : ProcessingRun(p))
  /\ WF_vars(\E p \in 1..Len(processing) : on_processing_finished(p))

SpecWindow == InitWindow /\ [][NextWindow]_vars /\ WindowFairness

\* ------------------------------------------------------------------------
\* Properties of the window
\* ------------------------------------------------------------------------
\* names a recording file can get
FileNames == 0..generate_filename(MaxClock)

\* a ProcessingThread was started on file f
Submitted(f) == \E p \in 1..Len(processing) : processing[p].audio_file = f

\* the ProcessingThreads whose run has not returned
RunningProcessing == {p \in 1..Len(processing) : processing[p].state = "running"}

\* no stream or file operation has raised
NoError == errors = << >>

\* C29: every file the recorder has saved, segments of a rotation included,
\* is eventually given to a ProcessingThread, as long as no stream or file
\* operation raises; and at most one ProcessingThread runs at a time.
C29_SavedIsProcessed ==
  /\ \A f \in FileNames : (f \in DOMAIN fs) ~> (Submitted(f) \/ ~NoError)
  /\ [](Cardinality(RunningProcessing) <= 1)

\* ------------------------------------------------------------------------
\* FileManager (storage/file_manager.py)
\* ------------------------------------------------------------------------
\* Every call opens its own connection and commits once, at its end: the
\* statements of a call are one transaction.  Time is counted in days.

\* rows ever inserted in recordings, blanks, transcriptions
MaxRecordings == 2

MaxBlanks == 2

MaxTranscriptions == 1

\* last day of the clock
MaxDays == 2

\* the file paths recordings are added under
FilePaths == {"a.wav", "b.wav"}

BlankTypes == {"natural", "abnormal"}

\* blank_count and has_abnormal_blanks as given to add_recording: the
\* defaults, or the result of an analysis made before the row is added
RecordingKwargs ==
  { [blank_count |-> 0, has_abnormal_blanks |-> FALSE],
    [blank_count |-> 1, has_abnormal_blanks |-> TRUE] }

\* config["storage"]["lifetime_days"]: the smallest value the configuration
\* dialog accepts
lifetime_days == 1

\* SELECT COUNT(*) FROM blanks WHERE recording_id = ?
blank_count_of(rows, recording_id) ==
  Cardinality({b \in rows : b.recording_id = recording_id})

\* SELECT COUNT(*) > 0 FROM blanks WHERE recording_id = ? AND type = 'abnormal'
has_abnormal_of(rows, recording_id) ==
  \E b \in rows : b.recording_id = recording_id /\ b.type = "abnormal"

InitStorage ==
  /\ NoStorage
  /\ NoRecorder
  /\ NoWindow
  /\ audio_file = NoAudio
  /\ start_time = 0
  /\ end_time = 0
  /\ result = NoResult
  /\ disk = FileAbsent
  /\ model = NoneObj
  /\ scaler = NoneObj
  /\ is_trained = FALSE
  /\ runs = 0
  /\ ctl = CtlIdle("__init__", "False", FileAbsent)
  /\ call = CallIdle
  /\ NoExtract
  /\ NoTrainLoop
  /\ NoPipeline

\* what the calls of the file manager leave alone
StorageFrame ==
  /\ UNCHANGED <<recorder, threads, rcall, chunks, fs, errors, windowVars>>
  /\ UNCHANGED <<callVars, facadeVars, extractVars, trainLoopVars, pipeVars>>

\* a day passes
NextDay ==
  /\ now < MaxDays
  /\ now' = now + 1
  /\ UNCHANGED dbVars
  /\ StorageFrame

\* lines 82-122: add_recording; filepath is UNIQUE, and the caller may give
\* blank_count and has_abnormal_blanks
add_recording(filepath, blank_count, has_abnormal_blanks) ==
  /\ IF \E id \in DOMAIN recordings : recordings[id].filepath = filepath
     THEN /\ fcall' = [op |-> "add_recording", ret |-> 0]
          /\ UNCHANGED <<recordings, sqlite_sequence>>
     ELSE /\ sqlite_sequence.recordings < MaxRecordings
          /\ LET recording_id == sqlite_sequence.recordings + 1
             IN  /\ recordings' =
                      (recording_id :> [filepath |-> filepath, created_date |-> now,
                                        transcribed |-> FALSE,
                                        has_abnormal_blanks |-> has_abnormal_blanks,
                                        blank_count |-> blank_count]) @@ recordings
                 /\ sqlite_sequence' = [sqlite_sequence EXCEPT !.recordings = recording_id]
                 /\ fcall' = [op |-> "add_recording", ret |-> recording_id]
  /\ UNCHANGED <<blanks, transcriptions, received, now>>
  /\ StorageFrame

\* lines 124-140: add_transcription
add_transcription(recording_id) ==
  /\ sqlite_sequence.transcriptions < MaxTranscriptions
  /\ LET id == sqlite_sequence.transcriptions + 1
     IN  /\ transcriptions' = transcriptions \cup {[id |-> id, recording_id |-> recording_id]}
         /\ sqlite_sequence' = [sqlite_sequence EXCEPT !.transcriptions = id]
  /\ recordings' = [id \in DOMAIN recordings |->
                      IF id = recording_id
                      THEN [recordings[id] EXCEPT !.transcribed = TRUE]
                      ELSE recordings[id]]
  /\ fcall' = [op |-> "add_transcription", ret |-> 0]
  /\ UNCHANGED <<blanks, received, now>>
  /\ StorageFrame

\* add_blank adding one to the stored count instead of counting the rows
add_blank_increment(recording_id, blank_type) ==
  /\ sqlite_sequence.blanks < MaxBlanks
  /\ LET id == sqlite_sequence.blanks + 1
     IN  /\ blanks' = blanks \cup {[id |-> id, recording_id |-> recording_id, type |-> blank_type]}
         /\ sqlite_sequence' = [sqlite_sequence EXCEPT !.blanks = id]
  /\ recordings' = [id \in DOMAIN recordings |->
                      IF id = recording_id
                      THEN [recordings[id] EXCEPT
                              !.blank_count = @ + 1,
                              !.has_abnormal_blanks = @ \/ blank_type = "abnormal"]
                      ELSE recordings[id]]
  /\ received' = received \cup ({recording_id} \cap DOMAIN recordings)
  /\ fcall' = [op |-> "add_blank", ret |-> 0]
  /\ UNCHANGED <<transcriptions, now>>
  /\ StorageFrame

\* lines 142-161: add_blank inserts the row, then recounts the blanks of the
\* recording (no row is updated when the recording does not exist: foreign
\* keys are not enforced)
add_blank(recording_id, blank_type) ==
  /\ sqlite_sequence.blanks < MaxBlanks
  /\ LET id == sqlite_sequence.blanks + 1
     IN  /\ blanks' = blanks \cup {[id |-> id, recording_id |-> recording_id, type |-> blank_type]}
         /\ sqlite_sequence' = [sqlite_sequence EXCEPT !.blanks = id]
  /\ recordings' = [id \in DOMAIN recordings |->
                      IF id = recording_id
                      THEN [recordings[id] EXCEPT
                              !.blank_count = blank_count_of(blanks', recording_id),
                              !.has_abnormal_blanks = has_abnormal_of(blanks', recording_id)]
                      ELSE recordings[id]]
  /\ received' = received \cup ({recording_id} \cap DOMAIN recordings)
  /\ fcall' = [op |-> "add_blank", ret |-> 0]
  /\ UNCHANGED <<transcriptions, now>>
  /\ StorageFrame

\* lines 208-259: delete_old_recordings.  Nothing is done when auto_delete
\* is off.  Else, for every recording created before the cutoff date: the
\* files are removed and the rows of the three tables deleted, unless
\* removing a file raises (kept: the recordings this happens for), in which
\* case the rows of that recording stay.
delete_old_recordings(days, auto_delete, kept) ==
  /\ LET cutoff_date == now - days
         old_recordings == {id \in DOMAIN recordings : recordings[id].created_date < cutoff_date}
         deleted == IF auto_delete THEN old_recordings \ kept ELSE {}
     IN  /\ auto_delete => kept \subseteq old_recordings
         /\ ~auto_delete => kept = {}
         /\ blanks' = {b \in blanks : b.recording_id \notin deleted}
         /\ transcriptions' = {t \in transcriptions : t.recording_id \notin deleted}
         /\ recordings' = [id \in DOMAIN recordings \ deleted |-> recordings[id]]
         /\ received' = received \ deleted
         /\ fcall' = [op |-> "delete_old_recordings", ret |-> Cardinality(deleted)]
  /\ UNCHANGED <<sqlite_sequence, now>>
  /\ StorageFrame

NextStorage ==
  \/ NextDay
  \/ \E filepath \in FilePaths, kwargs \in RecordingKwargs :
       add_recording(filepath, kwargs.blank_count, kwargs.has_abnormal_blanks)
  \/ \E recording_id \in 1..MaxRecordings : add_transcription(recording_id)
  \/ \E recording_id \in 1..MaxRecordings, blank_type \in BlankTypes :
       add_blank(recording_id, blank_type)
  \/ \E auto_delete \in BOOLEAN, kept \in SUBSET (1..MaxRecordings) :
       delete_old_recordings(lifetime_days, auto_delete, kept)

SpecStorage == InitStorage /\ [][NextStorage]_vars

\* ------------------------------------------------------------------------
\* Properties of the file manager
\* ------------------------------------------------------------------------
\* C30: every recording row an add_blank call has updated has, after any
\* sequence of calls, blank_count equal to the number of blanks rows with
\* its id and has_abnormal_blanks set exactly when one of them is of type
\* abnormal; and when a recording row is deleted no row of blanks or
\* transcriptions is left that refers to it.
C30_BlankBookkeeping ==
  /\ [](\A id \in received :
          /\ id \in DOMAIN recordings
          /\ recordings[id].blank_count =
               Cardinality({b \in blanks : b.recording_id = id})
          /\ recordings[id].has_abnormal_blanks <=>
               (\E b \in blanks : b.recording_id = id /\ b.type = "abnormal"))
  /\ [][\A id \in DOMAIN recordings \ DOMAIN recordings' :
          /\ \A b \in blanks' : b.recording_id # id
          /\ \A t \in transcriptions' : t.recording_id # id]_vars

\* C30 witness: recording 2 has received an abnormal blank, and recording 1
\* was deleted together with the blank it had received
C30_Witness ==
  /\ DOMAIN recordings = {2}
  /\ 2 \in received
  /\ recordings[2].blank_count = 1
  /\ recordings[2].has_abnormal_blanks
  /\ sqlite_sequence.blanks = 2
  /\ blanks = {[id |-> 2, recording_id |-> 2, type |-> "abnormal"]}
  /\ fcall.op = "delete_old_recordings"
  /\ fcall.ret = 1

====
